---- MODULE Spec2Model ----
(***************************************************************************)
(* Zetro: the wire contract of the emitted server dispatcher (warp plugin) *)
(* and of the emitted client builder classes (class_client plugin), with   *)
(* the route-name tokenizer both of them share; the schema parser and the  *)
(* run of the generator (main).                                            *)
(***************************************************************************)
EXTENDS Integers, Sequences, FiniteSets, TLC

(***************************************************************************)
(* Bounds of the model.                                                    *)
(***************************************************************************)
\* longest operations list of a request envelope sent by an arbitrary peer
MaxOps == 2
\* most builder-method calls made on one client builder
MaxCalls == 2
\* most fetch() calls made on one client builder
MaxFetches == 1
\* most calls of encrypt_route_name followed in one behaviour
MaxRuns == 2

(***************************************************************************)
(* JSON values (serde_json::Value / the values of the frontend).           *)
(* Strings are sequences of one-character strings, so that a token can be  *)
(* inspected character by character.                                       *)
(***************************************************************************)
JNull == [t |-> "null", v |-> 0]
JNum(n) == [t |-> "number", v |-> n]
JStr(s) == [t |-> "string", v |-> s]
JArr(s) == [t |-> "array", v |-> s]

(***************************************************************************)
(* SHA-1 and HMAC, on 32-bit words kept as <<high 16 bits, low 16 bits>>.   *)
(***************************************************************************)
RECURSIVE Xor16(_, _)
Xor16(a, b) ==
    IF a = 0 THEN b
    ELSE IF b = 0 THEN a
    ELSE 2 * Xor16(a \div 2, b \div 2) + ((a + b) % 2)

RECURSIVE And16(_, _)
And16(a, b) ==
    IF a = 0 \/ b = 0 THEN 0
    ELSE 2 * And16(a \div 2, b \div 2) + ((a % 2) * (b % 2))

WXor(a, b) == <<Xor16(a[1], b[1]), Xor16(a[2], b[2])>>
WAnd(a, b) == <<And16(a[1], b[1]), And16(a[2], b[2])>>
WOr(a, b) == <<a[1] + b[1] - And16(a[1], b[1]), a[2] + b[2] - And16(a[2], b[2])>>
WNot(a) == <<65535 - a[1], 65535 - a[2]>>
WAdd(a, b) ==
    <<(a[1] + b[1] + ((a[2] + b[2]) \div 65536)) % 65536, (a[2] + b[2]) % 65536>>
WRotl(a, n) ==
    LET hi == IF n < 16 THEN a[1] ELSE a[2]
        lo == IF n < 16 THEN a[2] ELSE a[1]
        m == n % 16
    IN <<((hi * (2 ^ m)) % 65536) + (lo \div (2 ^ (16 - m))),
         ((lo * (2 ^ m)) % 65536) + (hi \div (2 ^ (16 - m)))>>

Zeros(n) == [i \in 1..n |-> 0]

\* message ++ 0x80 ++ zeros ++ 64-bit big-endian bit length (messages < 8 KiB)
Sha1Pad(msg) ==
    LET l == Len(msg)
    IN msg \o <<128>> \o Zeros((119 - l) % 64) \o Zeros(6)
           \o <<(l * 8) \div 256, (l * 8) % 256>>

Sha1WordAt(bytes, j) ==
    <<bytes[4 * j - 3] * 256 + bytes[4 * j - 2], bytes[4 * j - 1] * 256 + bytes[4 * j]>>

\* the message schedule, extended from the words of w up to n words, by halves
RECURSIVE Sha1Schedule(_, _)
Sha1Schedule(w, n) ==
    LET t == Len(w) + 1
    IN IF t > n THEN w
       ELSE IF t = n
       THEN Append(w, WRotl(WXor(WXor(w[t - 3], w[t - 8]), WXor(w[t - 14], w[t - 16])), 1))
       ELSE Sha1Schedule(Sha1Schedule(w, (t + n) \div 2), n)

Sha1F(t, b, c, d) ==
    IF t < 20 THEN WOr(WAnd(b, c), WAnd(WNot(b), d))
    ELSE IF t < 40 THEN WXor(WXor(b, c), d)
    ELSE IF t < 60 THEN WOr(WOr(WAnd(b, c), WAnd(b, d)), WAnd(c, d))
    ELSE WXor(WXor(b, c), d)

Sha1K(t) ==
    IF t < 20 THEN <<23170, 31129>>
    ELSE IF t < 40 THEN <<28377, 60321>>
    ELSE IF t < 60 THEN <<36635, 48348>>
    ELSE <<51810, 49622>>

\* one round: the five working words after round t
Sha1Round(s, w, t) ==
    <<WAdd(WAdd(WAdd(WAdd(WRotl(s[1], 5), Sha1F(t, s[2], s[3], s[4])), s[5]), Sha1K(t)),
           w[t + 1]),
      s[1], WRotl(s[2], 30), s[3], s[4]>>

\* rounds lo .. hi-1, by halves
RECURSIVE Sha1Rounds(_, _, _, _)
Sha1Rounds(s, w, lo, hi) ==
    IF hi = lo + 1 THEN Sha1Round(s, w, lo)
    ELSE LET first == Sha1Rounds(s, w, lo, (lo + hi) \div 2)
         IN IF Len(first) = 5 THEN Sha1Rounds(first, w, (lo + hi) \div 2, hi) ELSE first

Sha1AddState(h, s) ==
    <<WAdd(h[1], s[1]), WAdd(h[2], s[2]), WAdd(h[3], s[3]), WAdd(h[4], s[4]),
      WAdd(h[5], s[5])>>

Sha1Compress(h, block) ==
    Sha1AddState(h, Sha1Rounds(h, Sha1Schedule([j \in 1..16 |-> Sha1WordAt(block, j)], 80), 0, 80))

RECURSIVE Sha1Blocks(_, _)
Sha1Blocks(h, bytes) ==
    IF bytes = <<>> THEN h
    ELSE Sha1Blocks(Sha1Compress(h, SubSeq(bytes, 1, 64)), SubSeq(bytes, 65, Len(bytes)))

Sha1H0 ==
    <<<<26437, 8961>>, <<61389, 43913>>, <<39098, 56574>>, <<4146, 21622>>, <<50130, 57840>>>>

WBytes(a) == <<a[1] \div 256, a[1] % 256, a[2] \div 256, a[2] % 256>>

Sha1Digest(h) == WBytes(h[1]) \o WBytes(h[2]) \o WBytes(h[3]) \o WBytes(h[4]) \o WBytes(h[5])

\* the 20-byte digest
Sha1(msg) == Sha1Digest(Sha1Blocks(Sha1H0, Sha1Pad(msg)))

\* keys of at most one block, as "zetro" is
Hmac(key, msg) ==
    LET k == key \o Zeros(64 - Len(key))
        ipad == [i \in 1..64 |-> Xor16(k[i], 54)]
        opad == [i \in 1..64 |-> Xor16(k[i], 92)]
    IN Sha1(opad \o Sha1(ipad \o msg))

(***************************************************************************)
(* base64::encode_config                                                   *)
(***************************************************************************)
Base64Letters ==
    <<"A", "B", "C", "D", "E", "F", "G", "H", "I", "J", "K", "L", "M",
      "N", "O", "P", "Q", "R", "S", "T", "U", "V", "W", "X", "Y", "Z",
      "a", "b", "c", "d", "e", "f", "g", "h", "i", "j", "k", "l", "m",
      "n", "o", "p", "q", "r", "s", "t", "u", "v", "w", "x", "y", "z",
      "0", "1", "2", "3", "4", "5", "6", "7", "8", "9">>

STANDARD == [alphabet |-> Base64Letters \o <<"+", "/">>, pad |-> TRUE]
URL_SAFE == [alphabet |-> Base64Letters \o <<"-", "_">>, pad |-> TRUE]
URL_SAFE_NO_PAD == [alphabet |-> Base64Letters \o <<"-", "_">>, pad |-> FALSE]

RECURSIVE encode_config(_, _)
encode_config(bytes, config) ==
    LET a == config.alphabet
        n == Len(bytes)
    IN IF n = 0 THEN <<>>
       ELSE IF n = 1
       THEN <<a[(bytes[1] \div 4) + 1], a[((bytes[1] % 4) * 16) + 1]>>
            \o (IF config.pad THEN <<"=", "=">> ELSE <<>>)
       ELSE IF n = 2
       THEN <<a[(bytes[1] \div 4) + 1],
              a[((bytes[1] % 4) * 16) + (bytes[2] \div 16) + 1],
              a[((bytes[2] % 16) * 4) + 1]>>
            \o (IF config.pad THEN <<"=">> ELSE <<>>)
       ELSE <<a[(bytes[1] \div 4) + 1],
              a[((bytes[1] % 4) * 16) + (bytes[2] \div 16) + 1],
              a[((bytes[2] % 16) * 4) + (bytes[3] \div 64) + 1],
              a[(bytes[3] % 64) + 1]>>
            \o encode_config(SubSeq(bytes, 4, n), config)

(***************************************************************************)
(* The schema (the IR the generators consume).                             *)
(***************************************************************************)
\* str::as_bytes of the names used in the model
as_bytes ==
    [getRooms |-> <<103, 101, 116, 82, 111, 111, 109, 115>>,
     ping |-> <<112, 105, 110, 103>>,
     sendMessage |-> <<115, 101, 110, 100, 77, 101, 115, 115, 97, 103, 101>>,
     zetro |-> <<122, 101, 116, 114, 111>>]

\* the names of the schema's routes as character strings
name_chars ==
    [getRooms |-> <<"g", "e", "t", "R", "o", "o", "m", "s">>,
     ping |-> <<"p", "i", "n", "g">>,
     sendMessage |-> <<"s", "e", "n", "d", "M", "e", "s", "s", "a", "g", "e">>]

Field(kind, nullable, multiple) ==
    [kind |-> kind, is_nullable |-> nullable, is_multiple |-> multiple]

ZetroRoute(kind, name, request, response) ==
    [kind |-> kind, name |-> name, request_body |-> request, response_body |-> response]

\* the query routes of the schema, in declaration order
queries ==
    <<ZetroRoute("Query", "getRooms", Field("UInt8", TRUE, FALSE), Field("UInt8", FALSE, FALSE)),
      ZetroRoute("Query", "ping", Field("StringValue", FALSE, FALSE), Field("UInt8", FALSE, FALSE))>>

\* the mutation routes of the schema, in declaration order
mutations ==
    <<ZetroRoute("Mutation", "sendMessage", Field("UInt8", FALSE, FALSE),
                 Field("UInt64", FALSE, FALSE))>>

Range(s) == {s[i] : i \in DOMAIN s}
AllRoutes == Range(queries) \cup Range(mutations)

to_method_code(kind) == IF kind = "Query" THEN 1 ELSE 2

\* every route of the schema, and routes of other schemas that share a name
\* with one of them (another kind, another request body)
RouteUniverse ==
    AllRoutes \cup
    {ZetroRoute(k, n, Field(q, FALSE, FALSE), Field("UInt8", FALSE, FALSE)) :
        k \in {"Query", "Mutation"}, n \in {"getRooms", "sendMessage"},
        q \in {"UInt8", "StringValue"}}


\* faulty variant of encrypt_route_name: the padded URL-safe configuration
encrypt_route_name_padded(route) ==
    encode_config(Hmac(as_bytes["zetro"], as_bytes[route.name]), URL_SAFE)

\* ZetroRoute::encrypt_route_name: HMAC-SHA1 of the name under the key
\* "zetro", in URL-safe base64 without padding
encrypt_route_name(route) ==
    encode_config(Hmac(as_bytes["zetro"], as_bytes[route.name]), URL_SAFE_NO_PAD)

\* convert_case: route.name.to_case(Case::Snake) and to_case(Case::Camel)
to_case ==
    [Snake |-> [getRooms |-> "get_rooms", ping |-> "ping", sendMessage |-> "send_message"],
     Camel |-> [getRooms |-> "getRooms", ping |-> "ping", sendMessage |-> "sendMessage"]]

VARIABLES
    tokens,   \* route_encrypted of the schema's routes, as the generators embed it
    runs,     \* the calls of encrypt_route_name made so far, with their results
    conn,     \* per request: the state of the dispatcher's async block
    db,       \* the host's shared state behind the ZetroContext
    client,   \* the emitted client builder and its fetch()
    parsed,   \* the call of a parser or generator function, with its result
    proc,     \* the run of the generator: position in main, exit code, files
    ctx       \* the host's ZetroContext: its entries, and what get has returned

vars == <<tokens, runs, conn, db, client, parsed, proc, ctx>>

\* no parser call made yet
NoCall == [op |-> "none", input |-> <<>>, result |-> <<>>]

\* no run of the generator started
NoProc == [pc |-> "off"]

\* no context built
NoContext == [pc |-> "off"]

(***************************************************************************)
(* The emitted server (warp plugin).                                       *)
(***************************************************************************)
_generate_data_reply(data) ==
    [status |-> 200, body |-> JArr(<<JArr(data), JNull>>)]


\* faulty variant of _generate_error_reply: the code becomes the HTTP status
_generate_error_reply_status(code, message) ==
    [status |-> code, body |-> JArr(<<JNull, JArr(<<JNum(code), JStr(message)>>)>>)]

_generate_error_reply(code, message) ==
    [status |-> 200, body |-> JArr(<<JNull, JArr(<<JNum(code), JStr(message)>>)>>)]

NoResponse == [status |-> 0, body |-> JNull]

\* serde_json::from_slice::<(u8, Vec<serde_json::Value>)>(&body)
request_payload_is_ok(body) ==
    /\ body.t = "array"
    /\ Len(body.v) = 2
    /\ body.v[1].t = "number"
    /\ body.v[1].v \in 0..255
    /\ body.v[2].t = "array"

\* serde_json::from_value::<T>(route_body), T the request type of the route
kind_accepts(kind, v) ==
    IF kind = "UInt8" THEN v.t = "number" /\ v.v \in 0..255
    ELSE IF kind = "UInt64" THEN v.t = "number" /\ v.v >= 0
    ELSE IF kind = "StringValue" THEN v.t = "string"
    ELSE FALSE

from_value_is_ok(field, v) ==
    IF field.is_nullable /\ v.t = "null" THEN TRUE
    ELSE IF field.is_multiple
    THEN v.t = "array" /\ \A j \in DOMAIN v.v : kind_accepts(field.kind, v.v[j])
    ELSE kind_accepts(field.kind, v)


\* faulty variant of match_arm: the first arm catches every route name
match_arm_first(routes, route_name, j) == IF j > Len(routes) THEN 0 ELSE j

\* the match on route_name: the first arm whose token equals it, 0 for `_`
RECURSIVE match_arm(_, _, _)
match_arm(routes, route_name, j) ==
    IF j > Len(routes) THEN 0
    ELSE IF tokens[routes[j]] = route_name THEN j
    ELSE match_arm(routes, route_name, j + 1)

Finished(c, reply) == [c EXCEPT !.pc = "done", !.response = reply]

\* one arm of the match: decode the body, then call the user's handler
RouteArm(c, route, route_name, route_body) ==
    IF ~from_value_is_ok(route.request_body, route_body)
    THEN Finished(c, _generate_error_reply(400, "Bad request"))
    ELSE [c EXCEPT !.pc = "await",
                   !.calls = Append(@, [fn |-> to_case.Snake[route.name],
                                        route |-> route, op |-> c.i + 1,
                                        route_name |-> route_name,
                                        request |-> route_body])]


\* faulty variant of MatchRoutes: the arms of both kinds in one match
MatchRoutes_any(c, routes, route_name, route_body) ==
    LET j == match_arm(queries \o mutations, route_name, 1)
    IN IF j = 0
       THEN Finished(c, _generate_error_reply(400, "Unrecognized route name"))
       ELSE RouteArm(c, (queries \o mutations)[j], route_name, route_body)

MatchRoutes(c, routes, route_name, route_body) ==
    LET j == match_arm(routes, route_name, 1)
    IN IF j = 0
       THEN Finished(c, _generate_error_reply(400, "Unrecognized route name"))
       ELSE RouteArm(c, routes[j], route_name, route_body)

\* the body of `for op in operations`, from the operation after c.i up to
\* the next await or return
DispatchLoop(c) ==
    IF c.i = Len(c.operations) THEN Finished(c, _generate_data_reply(c.retval))
    ELSE LET op == c.operations[c.i + 1]
         IN IF op.t # "array"
            THEN Finished(c, _generate_error_reply(400, "Operations must be an array"))
            ELSE IF Len(op.v) < 2
            THEN Finished(c, _generate_error_reply(400,
                                  "Route name and route body are mandatory"))
            ELSE IF op.v[1].t # "string"
            THEN Finished(c, _generate_error_reply(400, "Route name must be string"))
            ELSE IF c.method_code = to_method_code("Query")
            THEN MatchRoutes(c, queries, op.v[1].v, op.v[2])
            ELSE IF c.method_code = to_method_code("Mutation")
            THEN MatchRoutes(c, mutations, op.v[1].v, op.v[2])
            ELSE Finished(c, _generate_error_reply(400, "Bad request"))

\* the async block of generate_routes, up to its first await or return
Dispatch(c, body) ==
    IF ~request_payload_is_ok(body)
    THEN Finished([c EXCEPT !.body = body], _generate_error_reply(400, "Bad request"))
    ELSE DispatchLoop([c EXCEPT !.body = body,
                                !.method_code = body.v[1].v,
                                !.operations = body.v[2].v])


\* faulty variant of Resume: the result is put in front of retval
Resume_unshift(c, result) ==
    LET call == c.calls[Len(c.calls)]
        done == [c EXCEPT !.results = Append(@, result)]
    IN IF result.ok
       THEN DispatchLoop([done EXCEPT
                !.retval = <<JArr(<<JStr(call.route_name), result.d>>)>> \o @,
                !.i = @ + 1])
       ELSE Finished(done, _generate_error_reply(result.code, result.message))

\* faulty variant of Resume: an Err(e) is dropped and the loop goes on
Resume_goes_on(c, result) ==
    LET call == c.calls[Len(c.calls)]
        done == [c EXCEPT !.results = Append(@, result)]
    IN IF result.ok
       THEN DispatchLoop([done EXCEPT
                !.retval = Append(@, JArr(<<JStr(call.route_name), result.d>>)),
                !.i = @ + 1])
       ELSE DispatchLoop([done EXCEPT !.i = @ + 1])

\* variant of Resume that answers with the declared name of the route
Resume_declared_name(c, result) ==
    LET call == c.calls[Len(c.calls)]
        done == [c EXCEPT !.results = Append(@, result)]
    IN IF result.ok
       THEN DispatchLoop([done EXCEPT
                !.retval = Append(@, JArr(<<JStr(name_chars[call.route.name]), result.d>>)),
                !.i = @ + 1])
       ELSE Finished(done, _generate_error_reply(result.code, result.message))

\* the handler's result arrives: Err(e) returns the error reply, Ok(d) is
\* pushed as (route_name, d) and the loop goes on
Resume(c, result) ==
    LET call == c.calls[Len(c.calls)]
        done == [c EXCEPT !.results = Append(@, result)]
    IN IF result.ok
       THEN DispatchLoop([done EXCEPT
                !.retval = Append(@, JArr(<<JStr(call.route_name), result.d>>)),
                !.i = @ + 1])
       ELSE Finished(done, _generate_error_reply(result.code, result.message))

IdleConn ==
    [pc |-> "idle", body |-> JNull, method_code |-> 0, operations |-> <<>>, i |-> 0,
     retval |-> <<>>, calls |-> <<>>, results |-> <<>>, response |-> NoResponse]

(***************************************************************************)
(* The peer of the server and the user's handlers.                         *)
(***************************************************************************)
\* a route name sent in clear instead of its token
PlainName == <<"g", "e", "t", "R", "o", "o", "m", "s">>

BodyValues == {JNull, JNum(7), JNum(300), JStr(<<"x">>)}

OpValues ==
    {JNum(5), JArr(<<JStr(PlainName)>>), JArr(<<JNum(5), JNull>>)} \cup
    {JArr(<<JStr(n), b>>) : n \in {tokens[r] : r \in AllRoutes} \cup {PlainName},
                            b \in BodyValues}

SeqsUpTo(S, n) == UNION {[1..k -> S] : k \in 0..n}

MethodCodes == {1, 2, 3}

Envelopes ==
    {JArr(<<JNum(mc), JArr(ops)>>) : mc \in MethodCodes, ops \in SeqsUpTo(OpValues, MaxOps)}

\* bodies that are not a (u8, array) tuple
MalformedBodies ==
    {JNum(5), JNull, JArr(<<JNum(1)>>), JArr(<<JNum(1), JNull>>),
     JArr(<<JNum(300), JArr(<<>>)>>), JArr(<<JStr(PlainName), JArr(<<>>)>>),
     JArr(<<JNum(1), JArr(<<>>), JNull>>)}

Bodies == Envelopes \cup MalformedBodies

\* the codes and messages of the ServerError values the handlers return
ErrCodes == {0, 42}
ErrMessages == {"", "nope"}
QueryResults == {JNum(10), JNum(11)}

Ok(d) == [ok |-> TRUE, d |-> d, code |-> 0, message |-> ""]
Err(code, message) == [ok |-> FALSE, d |-> JNull, code |-> code, message |-> message]

\* what an implementation of ZetroQueries / ZetroMutations may return: a
\* query answers without touching the shared state, a mutation answers with
\* the id it assigns (Db::send_message)
HandlerResults(kind) ==
    {Ok(d) : d \in (IF kind = "Query" THEN QueryResults ELSE {JNum(db)})}
    \cup {Err(c, m) : c \in ErrCodes, m \in ErrMessages}

(***************************************************************************)
(* Actions of the server.                                                  *)
(***************************************************************************)
\* a request arrives and runs up to its first await or to its reply
ServerReceive(r, body) ==
    /\ conn[r].pc = "idle"
    /\ conn' = [conn EXCEPT ![r] = Dispatch(@, body)]

Receive(r) ==
    /\ conn[r].pc = "idle"
    /\ \E body \in Bodies : ServerReceive(r, body)
    /\ UNCHANGED <<tokens, runs, db, client, parsed, proc, ctx>>

\* faulty variant of HandlerReturn: the handler works on a copy of the
\* shared state, which is dropped when it returns
HandlerReturn_on_copy(r) ==
    /\ conn[r].pc = "await"
    /\ LET call == conn[r].calls[Len(conn[r].calls)]
       IN \E result \in HandlerResults(call.route.kind) :
            /\ conn' = [conn EXCEPT ![r] = Resume(@, result)]
            /\ db' = db
    /\ UNCHANGED <<tokens, runs, client, parsed, proc, ctx>>

\* faulty variant of HandlerReturn: when a handler fails, what the earlier
\* mutations of the request did is undone
HandlerReturn_rolls_back(r) ==
    /\ conn[r].pc = "await"
    /\ LET call == conn[r].calls[Len(conn[r].calls)]
           earlier == {k \in DOMAIN conn[r].results :
                          conn[r].results[k].ok /\ conn[r].calls[k].route.kind = "Mutation"}
       IN \E result \in HandlerResults(call.route.kind) :
            /\ conn' = [conn EXCEPT ![r] = Resume(@, result)]
            /\ db' = IF result.ok /\ call.route.kind = "Mutation" THEN db + 1
                     ELSE IF ~result.ok THEN db - Cardinality(earlier)
                     ELSE db
    /\ UNCHANGED <<tokens, runs, client, parsed, proc, ctx>>

\* the awaited handler completes and the dispatcher runs on
HandlerReturn(r) ==
    /\ conn[r].pc = "await"
    /\ LET call == conn[r].calls[Len(conn[r].calls)]
       IN \E result \in HandlerResults(call.route.kind) :
            /\ conn' = [conn EXCEPT ![r] = Resume(@, result)]
            /\ db' = IF result.ok /\ call.route.kind = "Mutation" THEN db + 1 ELSE db
    /\ UNCHANGED <<tokens, runs, client, parsed, proc, ctx>>

(***************************************************************************)
(* The emitted client (class_client plugin).                               *)
(***************************************************************************)
JUndefined == [t |-> "undefined", v |-> 0]

\* v[k] of the frontend, k counted from 0; out of range is undefined
Index(v, k) == IF v.t = "array" /\ k + 1 \in DOMAIN v.v THEN v.v[k + 1] ELSE JUndefined

\* o.key of the frontend
Prop(o, key) == IF key \in DOMAIN o THEN o[key] ELSE JUndefined

\* the values `||` takes for false
Falsy(v) ==
    \/ v.t \in {"null", "undefined"}
    \/ v.t = "number" /\ v.v = 0
    \/ v.t = "string" /\ v.v = ""

\* a || b
OrElse(a, b) == IF Falsy(a) THEN b ELSE a

\* identifiers get a trailing underscore when mangling is on
Mangled(name, should_mangle) == IF should_mangle THEN name \o "_" ELSE name

route_name_min(route, should_mangle) == Mangled(to_case.Camel[route.name], should_mangle)

\* what a reading of a property or an index of null or undefined throws
TypeError == "message" :> JStr("TypeError")

\* request_body_expr: the bodies of the schema's routes are primitives
request_body_expr(route, requestBody) == requestBody

\* response_body_expr: the bodies of the schema's routes are primitives
response_body_expr(route, item) == Index(item, 1)


\* faulty variant of BuilderMethod: the parser is put in front of parsers_
BuilderMethod_unshift(c, route, requestBody) ==
    [c EXCEPT
        !.state_ = Append(@, JArr(<<JStr(tokens[route]),
                                    request_body_expr(route, requestBody)>>)),
        !.parsers_ = <<[key |-> route_name_min(route, c.should_mangle),
                        route |-> route]>> \o @]

\* the method emitted for a route: one push on each of the two arrays
BuilderMethod(c, route, requestBody) ==
    [c EXCEPT
        !.state_ = Append(@, JArr(<<JStr(tokens[route]),
                                    request_body_expr(route, requestBody)>>)),
        !.parsers_ = Append(@, [key |-> route_name_min(route, c.should_mangle),
                                route |-> route])]

\* the parser pushed by the method of a route, applied
Parser(parser, resultObj, item) ==
    [k \in DOMAIN resultObj \cup {parser.key} |->
        IF k = parser.key THEN response_body_expr(parser.route, item) ELSE resultObj[k]]

\* for (let i = 0; i < data.length; i++) this.parsers_[i](returnObject, data[i])
RECURSIVE ParseLoop(_, _, _, _)
ParseLoop(parsers, data, returnObject, i) ==
    IF i >= Len(data.v) THEN [thrown |-> FALSE, value |-> returnObject]
    ELSE IF i + 1 > Len(parsers) \/ data.v[i + 1].t \in {"null", "undefined"}
    THEN [thrown |-> TRUE, value |-> TypeError]
    ELSE ParseLoop(parsers, data, Parser(parsers[i + 1], returnObject, data.v[i + 1]), i + 1)

\* the try block of fetch(), once makeRequest has answered with result
FetchTry(c, result) ==
    IF result.t \in {"null", "undefined"} THEN [thrown |-> TRUE, value |-> TypeError]
    ELSE IF Index(result, 1).t \notin {"null", "undefined"}
    THEN [thrown |-> TRUE,
          value |-> (Mangled("code", c.should_mangle) :> Index(Index(result, 1), 0))
                    @@ (Mangled("message", c.should_mangle) :> Index(Index(result, 1), 1))]
    ELSE LET data == Index(result, 0)
         IN IF data.t \in {"null", "undefined"} THEN [thrown |-> TRUE, value |-> TypeError]
            ELSE IF data.t # "array" THEN [thrown |-> FALSE, value |-> <<>>]
            ELSE ParseLoop(c.parsers_, data, <<>>, 0)

\* the catch block of fetch()
FetchCatch(c, e) ==
    (Mangled("code", c.should_mangle) :>
        OrElse(Prop(e, Mangled("code", c.should_mangle)), JNum(-1)))
    @@ (Mangled("message", c.should_mangle) :>
        OrElse(Prop(e, Mangled("message", c.should_mangle)),
               JStr("An unexpected error occurred.")))

\* fetch() after makeRequest has resolved with result
FetchResolved(c, result) ==
    LET t == FetchTry(c, result)
    IN IF t.thrown
       THEN [c EXCEPT !.pc = "ready", !.settled = "rejected", !.value = FetchCatch(c, t.value)]
       ELSE [c EXCEPT !.pc = "ready", !.settled = "resolved", !.value = t.value]

\* fetch() after makeRequest has rejected with e
FetchRejected(c, e) ==
    [c EXCEPT !.pc = "ready", !.settled = "rejected", !.value = FetchCatch(c, e)]

\* the routes whose methods the class has
ClassRoutes(kind) == IF kind = "Query" THEN Range(queries) ELSE Range(mutations)

\* the arguments the signature of a builder method admits
TsAccepts(field, v) ==
    \/ field.is_nullable /\ v.t = "null"
    \/ field.kind \in {"UInt8", "UInt64"} /\ v.t = "number"
    \/ field.kind = "StringValue" /\ v.t = "string"

\* what makeRequest may reject with
TransportErrors == {<<>>, "message" :> JStr("net down")}

NewClient(kind, should_mangle) ==
    [kind |-> kind, should_mangle |-> should_mangle, state_ |-> <<>>, parsers_ |-> <<>>,
     pc |-> "ready", fetches |-> 0, sent |-> JNull, result |-> JNull,
     settled |-> "none", value |-> <<>>]

(***************************************************************************)
(* Actions of the client.                                                  *)
(***************************************************************************)
\* a builder method is called
BuilderCall ==
    /\ client.pc = "ready"
    /\ Len(client.state_) < MaxCalls
    /\ \E route \in ClassRoutes(client.kind) :
         \E requestBody \in {v \in BodyValues : TsAccepts(route.request_body, v)} :
            client' = BuilderMethod(client, route, requestBody)
    /\ UNCHANGED <<tokens, runs, conn, db, parsed, proc, ctx>>

\* faulty variant of FetchCall: the builder is emptied once its envelope
\* has been handed over
FetchCall_clears ==
    /\ client.pc = "ready"
    /\ client.fetches < Len(conn)
    /\ client' = [client EXCEPT
                    !.pc = "fetching", !.fetches = @ + 1, !.settled = "none",
                    !.value = <<>>, !.result = JNull,
                    !.state_ = <<>>, !.parsers_ = <<>>,
                    !.sent = JArr(<<JNum(to_method_code(client.kind)), JArr(client.state_)>>)]
    /\ UNCHANGED <<tokens, runs, conn, db, parsed, proc, ctx>>

\* fetch() is called and hands the envelope to makeRequest
FetchCall ==
    /\ client.pc = "ready"
    /\ client.fetches < Len(conn)
    /\ client' = [client EXCEPT
                    !.pc = "fetching", !.fetches = @ + 1, !.settled = "none",
                    !.value = <<>>, !.result = JNull,
                    !.sent = JArr(<<JNum(to_method_code(client.kind)), JArr(client.state_)>>)]
    /\ UNCHANGED <<tokens, runs, conn, db, parsed, proc, ctx>>

\* makeRequest delivers the envelope to the server
Deliver ==
    /\ client.pc = "fetching"
    /\ ServerReceive(client.fetches, client.sent)
    /\ UNCHANGED <<tokens, runs, db, client, parsed, proc, ctx>>

\* makeRequest resolves with the body of the server's response
FetchReturn ==
    /\ client.pc = "fetching"
    /\ conn[client.fetches].pc = "done"
    /\ client' = FetchResolved([client EXCEPT !.result = conn[client.fetches].response.body],
                               conn[client.fetches].response.body)
    /\ UNCHANGED <<tokens, runs, conn, db, parsed, proc, ctx>>

\* makeRequest rejects
TransportFail ==
    /\ client.pc = "fetching"
    /\ \E e \in TransportErrors : client' = FetchRejected(client, e)
    /\ UNCHANGED <<tokens, runs, conn, db, parsed, proc, ctx>>

(***************************************************************************)
(* The tokenizer on its own.                                               *)
(***************************************************************************)
\* encrypt_route_name is called on a route
Tokenize ==
    /\ Len(runs) < MaxRuns
    /\ \E route \in RouteUniverse :
         runs' = Append(runs, [route |-> route, token |-> encrypt_route_name(route)])
    /\ UNCHANGED <<tokens, conn, db, client, parsed, proc, ctx>>

(***************************************************************************)
(* Specifications.                                                         *)
(***************************************************************************)
\* the server and an arbitrary peer
Init ==
    /\ tokens = [r \in AllRoutes |-> encrypt_route_name(r)]
    /\ runs = <<>>
    /\ conn = [r \in {1} |-> IdleConn]
    /\ db = 0
    /\ parsed = NoCall
    /\ proc = NoProc
    /\ ctx = NoContext
    /\ client = [NewClient("Query", FALSE) EXCEPT !.pc = "off"]

Next ==
    \/ \E r \in DOMAIN conn : Receive(r)
    \/ \E r \in DOMAIN conn : HandlerReturn(r)

Spec == Init /\ [][Next]_vars

\* the emitted client in front of the emitted server
InitClient ==
    /\ tokens = [r \in AllRoutes |-> encrypt_route_name(r)]
    /\ runs = <<>>
    /\ conn = [r \in 1..MaxFetches |-> IdleConn]
    /\ db = 0
    /\ parsed = NoCall
    /\ proc = NoProc
    /\ ctx = NoContext
    /\ \E kind \in {"Query", "Mutation"}, should_mangle \in BOOLEAN :
         client = NewClient(kind, should_mangle)

NextClient ==
    \/ BuilderCall
    \/ FetchCall
    \/ Deliver
    \/ \E r \in DOMAIN conn : HandlerReturn(r)
    \/ FetchReturn
    \/ TransportFail

SpecClient == InitClient /\ [][NextClient]_vars

\* the tokenizer
InitToken ==
    /\ tokens = [r \in AllRoutes |-> encrypt_route_name(r)]
    /\ runs = <<>>
    /\ conn = [r \in {1} |-> IdleConn]
    /\ db = 0
    /\ parsed = NoCall
    /\ proc = NoProc
    /\ ctx = NoContext
    /\ client = [NewClient("Query", FALSE) EXCEPT !.pc = "off"]

NextToken == Tokenize

SpecToken == InitToken /\ [][NextToken]_vars

(***************************************************************************)
(* Properties of the server dispatcher.                                    *)
(***************************************************************************)
ResponseData(c) == c.response.body.v[1]
ResponseError(c) == c.response.body.v[2]

\* the reply is the error envelope [null, [code, message]]
IsErrorReply(c, code) ==
    /\ c.pc = "done"
    /\ ResponseData(c).t = "null"
    /\ ResponseError(c).t = "array"
    /\ ResponseError(c).v[1] = JNum(code)

\* every operation of the request was handled and its handler returned Ok
AllSucceeded(c) ==
    /\ c.pc = "done"
    /\ request_payload_is_ok(c.body)
    /\ Len(c.results) = Len(c.operations)
    /\ \A i \in DOMAIN c.results : c.results[i].ok

\* C1: when every operation of a request succeeds, the data array of the
\* response has one entry per operation of the envelope, and entry i carries
\* what the handler invoked for operation i returned
C1_OrderPreserved ==
    \A r \in DOMAIN conn :
        LET c == conn[r]
        IN AllSucceeded(c) =>
            /\ ResponseData(c).t = "array"
            /\ ResponseError(c).t = "null"
            /\ Len(ResponseData(c).v) = Len(c.operations)
            /\ \A i \in DOMAIN c.operations :
                /\ c.calls[i].op = i
                /\ c.calls[i].request = c.operations[i].v[2]
                /\ ResponseData(c).v[i].t = "array"
                /\ ResponseData(c).v[i].v[1] = c.operations[i].v[1]
                /\ ResponseData(c).v[i].v[2] = c.results[i].d

\* a batch of two different routes with two different results, all succeeding
C1_Witness ==
    \E r \in DOMAIN conn :
        /\ AllSucceeded(conn[r])
        /\ Len(conn[r].operations) = 2
        /\ conn[r].calls[1].route # conn[r].calls[2].route
        /\ conn[r].results[1].d # conn[r].results[2].d

\* C2: when the handler of operation k returns ServerError{code, message}
\* and the operations before k succeeded, the body is exactly
\* [null, [code, message]], the status is 200 and no handler of a later
\* operation is invoked
C2_ErrorShortCircuits ==
    \A r \in DOMAIN conn :
        LET c == conn[r]
        IN \A k \in DOMAIN c.results :
            (~c.results[k].ok /\ \A j \in 1..(k - 1) : c.results[j].ok) =>
                /\ c.pc = "done"
                /\ c.response.status = 200
                /\ c.response.body =
                       JArr(<<JNull, JArr(<<JNum(c.results[k].code),
                                            JStr(c.results[k].message)>>)>>)
                /\ Len(c.calls) = k
                /\ \A j \in DOMAIN c.calls : c.calls[j].op <= c.calls[k].op

\* the second of two operations fails with {42, "nope"} after the first succeeded
C2_Witness ==
    \E r \in DOMAIN conn :
        /\ conn[r].pc = "done"
        /\ Len(conn[r].results) = 2
        /\ conn[r].results[1].ok
        /\ conn[r].results[2] = Err(42, "nope")

\* C3 as stated: the first element of the entry of a successful operation is
\* the name of the route as declared in the schema
C3_DeclaredName ==
    \A r \in DOMAIN conn :
        LET c == conn[r]
        IN (c.pc = "done" /\ ResponseData(c).t = "array") =>
            \A i \in DOMAIN ResponseData(c).v :
                ResponseData(c).v[i].v[1] = JStr(name_chars[c.calls[i].route.name])

\* C3 amended: the entry of a successful operation is the pair
\* [route_name, result] whose first element is the route-name string the
\* operation carried, which is the token of the route
C3_TokenEchoed ==
    \A r \in DOMAIN conn :
        LET c == conn[r]
        IN (c.pc = "done" /\ ResponseData(c).t = "array") =>
            \A i \in DOMAIN ResponseData(c).v :
                /\ ResponseData(c).v[i].t = "array"
                /\ Len(ResponseData(c).v[i].v) = 2
                /\ ResponseData(c).v[i].v[1] = JStr(tokens[c.calls[i].route])
                /\ ResponseData(c).v[i].v[1] = c.operations[i].v[1]
                /\ ResponseData(c).v[i].v[2] = c.results[i].d

\* a data reply with an entry of route getRooms
C3_Witness ==
    \E r \in DOMAIN conn :
        /\ conn[r].pc = "done"
        /\ ResponseData(conn[r]).t = "array"
        /\ Len(ResponseData(conn[r]).v) >= 1
        /\ conn[r].calls[1].route.name = "getRooms"

\* C4: every response is an envelope [data, error] with exactly one of the
\* two non-null, data an array or error a pair [code, message], and it is
\* sent with status 200
C4_Envelope ==
    \A r \in DOMAIN conn :
        LET c == conn[r]
        IN c.pc = "done" =>
            /\ c.response.status = 200
            /\ c.response.body.t = "array"
            /\ Len(c.response.body.v) = 2
            /\ \/ ResponseData(c).t = "array" /\ ResponseError(c).t = "null"
               \/ /\ ResponseData(c).t = "null"
                  /\ ResponseError(c).t = "array"
                  /\ Len(ResponseError(c).v) = 2
                  /\ ResponseError(c).v[1].t = "number"
                  /\ ResponseError(c).v[2].t = "string"

\* a response to a body that is not a (u8, array) tuple, and a data response
C4_Witness ==
    \E r \in DOMAIN conn :
        /\ conn[r].pc = "done"
        /\ ~request_payload_is_ok(conn[r].body)
        /\ ResponseError(conn[r]).t = "array"

\* C5 as stated: a request whose method code is neither 1 nor 2 is answered
\* with an error of code 400, whatever its operations list, and no handler
\* is invoked
C5_OtherMethodCodeRejected ==
    \A r \in DOMAIN conn :
        LET c == conn[r]
        IN (c.pc = "done" /\ request_payload_is_ok(c.body) /\ c.body.v[1].v \notin {1, 2}) =>
            /\ IsErrorReply(c, 400)
            /\ c.calls = <<>>

\* the dispatch table a method code selects
SelectedTable(method_code) ==
    IF method_code = 1 THEN queries ELSE IF method_code = 2 THEN mutations ELSE <<>>

\* an operation the dispatcher has to reject: not an array with a string
\* route name and a body, a route name that is no token of the selected
\* table, or a body that does not decode into the request type of the route
Offending(op, method_code) ==
    \/ op.t # "array"
    \/ Len(op.v) < 2
    \/ op.v[1].t # "string"
    \/ \A j \in DOMAIN SelectedTable(method_code) :
            \/ tokens[SelectedTable(method_code)[j]] # op.v[1].v
            \/ ~from_value_is_ok(SelectedTable(method_code)[j].request_body, op.v[2])

\* C6 as stated: a request with a malformed body or with an offending
\* operation is answered with an error of code 400, and the handler of an
\* offending operation is not invoked
C6_OffenceRejected ==
    \A r \in DOMAIN conn :
        LET c == conn[r]
        IN c.pc = "done" =>
            /\ ~request_payload_is_ok(c.body) => (IsErrorReply(c, 400) /\ c.calls = <<>>)
            /\ (/\ request_payload_is_ok(c.body)
                /\ \E k \in DOMAIN c.operations : Offending(c.operations[k], c.method_code))
               => /\ IsErrorReply(c, 400)
                  /\ \A j \in DOMAIN c.calls :
                        ~Offending(c.operations[c.calls[j].op], c.method_code)

\* C6 amended: a malformed body is answered with code 400; so is a request
\* with an offending operation when the handlers of the operations before
\* the first offending one all succeed; the handler of an offending
\* operation is never invoked
C6_FirstOffenceRejected ==
    \A r \in DOMAIN conn :
        LET c == conn[r]
        IN /\ \A j \in DOMAIN c.calls :
                ~Offending(c.operations[c.calls[j].op], c.method_code)
           /\ c.pc = "done" =>
               /\ ~request_payload_is_ok(c.body) => (IsErrorReply(c, 400) /\ c.calls = <<>>)
               /\ \A k \in DOMAIN c.operations :
                    (/\ Offending(c.operations[k], c.method_code)
                     /\ \A j \in 1..(k - 1) : ~Offending(c.operations[j], c.method_code)
                     /\ \A j \in DOMAIN c.results : c.results[j].ok)
                    => (IsErrorReply(c, 400) /\ Len(c.calls) = k - 1)

\* the token of a mutation under method code 1, after an operation that succeeded
C6_Witness ==
    \E r \in DOMAIN conn :
        /\ IsErrorReply(conn[r], 400)
        /\ conn[r].method_code = 1
        /\ Len(conn[r].operations) = 2
        /\ Len(conn[r].calls) = 1
        /\ conn[r].results[1].ok
        /\ conn[r].operations[2].t = "array"
        /\ conn[r].operations[2].v[1] = JStr(tokens[mutations[1]])

(***************************************************************************)
(* Properties of the client and of the tokenizer.                          *)
(***************************************************************************)
\* C7: client and server agree on routing: the operation a builder method
\* of route R appends carries the token of R, the class sends 1 for queries
\* and 2 for mutations, and the server, once the operations before it have
\* succeeded, invokes on it the handler of R and no other
C7_RoutingAgrees ==
    \A r \in DOMAIN conn :
        LET c == conn[r]
            k == Len(c.results)
        IN c.pc # "idle" =>
            /\ request_payload_is_ok(c.body)
            /\ c.method_code = (IF client.kind = "Query" THEN 1 ELSE 2)
            /\ \A i \in DOMAIN c.operations :
                /\ client.parsers_[i].route.kind = client.kind
                /\ c.operations[i].v[1] =
                       JStr(tokens[client.parsers_[i].route])
            /\ \A j \in DOMAIN c.calls :
                /\ c.calls[j].op = j
                /\ c.calls[j].route = client.parsers_[j].route
                /\ c.calls[j].fn = to_case.Snake[client.parsers_[j].route.name]
            /\ (/\ \A j \in 1..k : c.results[j].ok
                /\ k < Len(c.operations)
                /\ from_value_is_ok(client.parsers_[k + 1].route.request_body,
                                    c.operations[k + 1].v[2]))
               => (Len(c.calls) = k + 1 /\ c.pc = "await")

\* the server awaits send_message on an operation of the mutation builder
C7_Witness ==
    \E r \in DOMAIN conn :
        /\ conn[r].pc = "await"
        /\ client.kind = "Mutation"
        /\ conn[r].method_code = 2
        /\ conn[r].calls[Len(conn[r].calls)].fn = "send_message"

\* C8: every token has exactly 27 characters of the URL-safe base64
\* alphabet, without padding, and two routes of the same name get the
\* same token
C8_TokenShape ==
    \A i \in DOMAIN runs :
        /\ Len(runs[i].token) = 27
        /\ \A j \in DOMAIN runs[i].token :
                runs[i].token[j] \in Range(Base64Letters) \cup {"-", "_"}
        /\ \A j \in DOMAIN runs :
                runs[i].route.name = runs[j].route.name => runs[i].token = runs[j].token

\* two different routes named getRooms were tokenized; the token has a "_"
C8_Witness ==
    \E i, j \in DOMAIN runs :
        /\ runs[i].route # runs[j].route
        /\ runs[i].route.kind # runs[j].route.kind
        /\ runs[i].route.name = "getRooms"
        /\ runs[j].route.name = "getRooms"
        /\ runs[i].token[5] = "_"

\* C9 as stated: on a response with a non-null error tuple [code, message],
\* fetch() rejects with an error whose code and message are the server's
C9_ErrorPassedOn ==
    (/\ client.settled # "none"
     /\ client.result.t = "array"
     /\ Index(client.result, 1).t = "array")
    => /\ client.settled = "rejected"
       /\ Prop(client.value, Mangled("code", client.should_mangle))
              = Index(Index(client.result, 1), 0)
       /\ Prop(client.value, Mangled("message", client.should_mangle))
              = Index(Index(client.result, 1), 1)

\* the route whose token a route-name string is
RouteOfToken(route_name) == CHOOSE R \in AllRoutes : tokens[R] = route_name

\* C10: the operations array and the parsers array have the same length
\* and the parser at index i is the one of the route of the operation at
\* index i; on a success response with as many entries as operations sent,
\* the result has, under the key named after the route of operation i,
\* the value parsed from data[i] (of the last such i when a route occurs
\* more than once), and no other key
C10_ParallelArrays ==
    /\ Len(client.state_) = Len(client.parsers_)
    /\ \A i \in DOMAIN client.state_ :
        /\ client.parsers_[i].route = RouteOfToken(client.state_[i].v[1].v)
        /\ client.parsers_[i].key =
               route_name_min(RouteOfToken(client.state_[i].v[1].v), client.should_mangle)
    /\ (/\ client.settled = "resolved"
        /\ Len(Index(client.result, 0).v) = Len(client.sent.v[2].v))
       => LET data == Index(client.result, 0).v
              key(i) == route_name_min(RouteOfToken(client.sent.v[2].v[i].v[1].v),
                                       client.should_mangle)
          IN /\ DOMAIN client.value = {key(i) : i \in DOMAIN data}
             /\ \A i \in DOMAIN data :
                    (\A j \in DOMAIN data : j > i => key(j) # key(i))
                    => client.value[key(i)] = data[i].v[2]

\* a fetch() of two operations of different routes resolved with two values
C10_Witness ==
    /\ client.settled = "resolved"
    /\ Len(client.sent.v[2].v) = 2
    /\ Cardinality(DOMAIN client.value) = 2
    /\ \E k1, k2 \in DOMAIN client.value : client.value[k1] # client.value[k2]

(***************************************************************************)
(* The schema parser (common/schema).  Every string of a schema document   *)
(* is a sequence of one-character strings; a JSON object is the sequence   *)
(* of its <<key, value>> members in the order the map yields them.         *)
(***************************************************************************)
\* most members of a "fields" object of the documents parsed
MaxFields == 2

JBool(b) == [t |-> "bool", v |-> b]
JObj(members) == [t |-> "object", v |-> members]

\* the string literals of the parser, as character strings
Chars ==
    [string |-> <<"s", "t", "r", "i", "n", "g">>,
     i8 |-> <<"i", "8">>,
     u8 |-> <<"u", "8">>,
     i16 |-> <<"i", "1", "6">>,
     u16 |-> <<"u", "1", "6">>,
     i32 |-> <<"i", "3", "2">>,
     u32 |-> <<"u", "3", "2">>,
     i64 |-> <<"i", "6", "4">>,
     u64 |-> <<"u", "6", "4">>,
     f32 |-> <<"f", "3", "2">>,
     f64 |-> <<"f", "6", "4">>,
     bool |-> <<"b", "o", "o", "l">>,
     enum |-> <<"e", "n", "u", "m">>,
     struct |-> <<"s", "t", "r", "u", "c", "t">>,
     description |-> <<"d", "e", "s", "c", "r", "i", "p", "t", "i", "o", "n">>,
     multiple |-> <<"m", "u", "l", "t", "i", "p", "l", "e">>,
     nullable |-> <<"n", "u", "l", "l", "a", "b", "l", "e">>,
     fields |-> <<"f", "i", "e", "l", "d", "s">>,
     structs |-> <<"s", "t", "r", "u", "c", "t", "s">>,
     enums |-> <<"e", "n", "u", "m", "s">>,
     routes |-> <<"r", "o", "u", "t", "e", "s">>,
     kind |-> <<"k", "i", "n", "d">>,
     query |-> <<"q", "u", "e", "r", "y">>,
     mutation |-> <<"m", "u", "t", "a", "t", "i", "o", "n">>,
     request |-> <<"r", "e", "q", "u", "e", "s", "t">>,
     response |-> <<"r", "e", "s", "p", "o", "n", "s", "e">>]

\* the characters of the documents, in the order of their bytes
ByteOrder ==
    <<" ", "-", "0", "1", "2", "3", "4", "5", "6", "7", "8", "9", ";",
      "?", "A", "B", "C", "D", "E", "F", "G", "H", "I", "J", "K", "L",
      "M", "N", "O", "P", "Q", "R", "S", "T", "U", "V", "W", "X", "Y",
      "Z", "[", "]", "_", "a", "b", "c", "d", "e", "f", "g", "h", "i",
      "j", "k", "l", "m", "n", "o", "p", "q", "r", "s", "t", "u", "v",
      "w", "x", "y", "z", "~">>

\* the byte of a character, up to the order of the bytes
Ord(c) == CHOOSE i \in DOMAIN ByteOrder : ByteOrder[i] = c

\* a < b for two strings: Ord for String, byte by byte
RECURSIVE StrLess(_, _)
StrLess(a, b) ==
    IF b = <<>> THEN FALSE
    ELSE IF a = <<>> THEN TRUE
    ELSE IF Head(a) # Head(b) THEN Ord(Head(a)) < Ord(Head(b))
    ELSE StrLess(Tail(a), Tail(b))

\* one key put at its place in a sorted sequence of keys
RECURSIVE SortedInsert(_, _)
SortedInsert(sorted, key) ==
    IF sorted = <<>> THEN <<key>>
    ELSE IF StrLess(key, Head(sorted)) THEN <<key>> \o sorted
    ELSE <<Head(sorted)>> \o SortedInsert(Tail(sorted), key)

\* faulty variant of sort: the keys stay in the order of the map
sort_missing(keys) == keys

\* fields_sorted.sort()
RECURSIVE sort(_)
sort(keys) ==
    IF keys = <<>> THEN <<>>
    ELSE SortedInsert(sort(SubSeq(keys, 1, Len(keys) - 1)), keys[Len(keys)])

\* str::starts_with
starts_with(value, prefix) ==
    Len(value) >= Len(prefix) /\ SubSeq(value, 1, Len(prefix)) = prefix

\* the index of the first occurrence of pat in value at or after i, 0 for none
RECURSIVE find(_, _, _)
find(value, pat, i) ==
    IF i + Len(pat) - 1 > Len(value) THEN 0
    ELSE IF SubSeq(value, i, i + Len(pat) - 1) = pat THEN i
    ELSE find(value, pat, i + 1)

\* str::split(pat).collect::<Vec<_>>()
\* (here and below, a value used more than once is bound with x \in {e}, so
\* that it is written and computed once)
RECURSIVE split(_, _)
split(value, pat) ==
    CHOOSE parts \in
        {IF i = 0 THEN <<value>>
         ELSE <<SubSeq(value, 1, i - 1)>>
              \o split(SubSeq(value, i + Len(pat), Len(value)), pat) :
            i \in {find(value, pat, 1)}} : TRUE

\* Option
None == [some |-> FALSE, v |-> <<>>]
Some(v) == [some |-> TRUE, v |-> v]

\* Vec::get / Map::get
get(parts, i) == IF i + 1 \in DOMAIN parts THEN Some(parts[i + 1]) ELSE None
map_get(map, key) ==
    IF \E i \in DOMAIN map : map[i][1] = key
    THEN Some(map[CHOOSE i \in DOMAIN map : map[i][1] = key][2])
    ELSE None

\* serde_json::Value::as_str, as_bool, as_object, as_array
as_str(value) == IF value.t = "string" THEN Some(value.v) ELSE None
as_bool(value) == IF value.t = "bool" THEN Some(value.v) ELSE None
as_object(value) == IF value.t = "object" THEN Some(value.v) ELSE None
as_array(value) == IF value.t = "array" THEN Some(value.v) ELSE None

\* ErrorKind and Offender
InvalidReference(name) == [k |-> "InvalidReference", x |-> <<name>>]
UnrecognizedField(name) == [k |-> "UnrecognizedField", x |-> <<name>>]
MissingField(name) == [k |-> "MissingField", x |-> <<name>>]
BadFieldValue(name, expected) == [k |-> "BadFieldValue", x |-> <<name, expected>>]
OffenderField(parent, name) == [o |-> "Field", x |-> <<parent, name>>]
OffenderStruct(name) == [o |-> "Struct", x |-> <<name>>]
OffenderEnum(name) == [o |-> "Enum", x |-> <<name>>]
OffenderRoute(name) == [o |-> "Route", x |-> <<name>>]
OffenderFile(name) == [o |-> "File", x |-> <<name>>]
SchemaError(kind, offender) == [kind |-> kind, offender |-> offender]

\* Result<_, SchemaError>, and a panic that unwinds through the callers
ROk(v) == [tag |-> "Ok", v |-> v]
RErr(kind, offender) == [tag |-> "Err", v |-> SchemaError(kind, offender)]
Panic(message) == [tag |-> "Panic", v |-> message]

FieldKind(k, x) == [k |-> k, x |-> x]

\* the FieldKind of a dtype that needs no name, "" for the others
PrimitiveKind(dtype) ==
    IF dtype = Chars.string THEN "StringValue"
    ELSE IF dtype = Chars.i8 THEN "Int8"
    ELSE IF dtype = Chars.u8 THEN "UInt8"
    ELSE IF dtype = Chars.i16 THEN "Int16"
    ELSE IF dtype = Chars.u16 THEN "UInt16"
    ELSE IF dtype = Chars.i32 THEN "Int32"
    ELSE IF dtype = Chars.u32 THEN "UInt32"
    ELSE IF dtype = Chars.i64 THEN "Int64"
    ELSE IF dtype = Chars.u64 THEN "UInt64"
    ELSE IF dtype = Chars.f32 THEN "Float32"
    ELSE IF dtype = Chars.f64 THEN "Float64"
    ELSE IF dtype = Chars.bool THEN "Boolean"
    ELSE ""

ZetroField(description, name, kind, is_nullable, is_multiple, is_recursive) ==
    [description |-> description, name |-> name, kind |-> kind,
     is_nullable |-> is_nullable, is_multiple |-> is_multiple,
     is_recursive |-> is_recursive]

ZetroStruct(name, description, is_nullable, is_multiple, fields) ==
    [name |-> name, description |-> description, is_nullable |-> is_nullable,
     is_multiple |-> is_multiple, fields |-> fields]

generate_nested_struct_name(struct_name, field_name) ==
    struct_name \o <<"_">> \o field_name

\* the branch of dtype "enum"
EnumKind(struct_name, field_name, extra, is_nullable, is_multiple, description) ==
    IF ~extra.some THEN Panic("enum declarations must contain enum name")
    ELSE ROk(ZetroField(description, field_name, FieldKind("EnumValue", extra.v),
                        is_nullable, is_multiple, FALSE))

\* faulty variant of StructKind: a recursive list is refused as well
StructKind_nullable_only(struct_name, field_name, extra, is_nullable, is_multiple, description) ==
    IF ~extra.some THEN Panic("struct declarations must contain struct name")
    ELSE IF extra.v = struct_name /\ ~is_nullable
    THEN RErr(BadFieldValue(field_name, "nullable and/or multiple to avoid an infinite loop."),
              OffenderField(struct_name, field_name))
    ELSE ROk(ZetroField(description, field_name, FieldKind("StructValue", extra.v),
                        is_nullable, is_multiple, extra.v = struct_name))

\* the branch of dtype "struct"
StructKind(struct_name, field_name, extra, is_nullable, is_multiple, description) ==
    IF ~extra.some THEN Panic("struct declarations must contain struct name")
    ELSE LET is_recursive == extra.v = struct_name
         IN IF is_recursive /\ ~is_nullable /\ ~is_multiple
            THEN RErr(BadFieldValue(field_name,
                                    "nullable and/or multiple to avoid an infinite loop."),
                      OffenderField(struct_name, field_name))
            ELSE ROk(ZetroField(description, field_name, FieldKind("StructValue", extra.v),
                                is_nullable, is_multiple, is_recursive))

\* ZetroField::from_value on a string
FieldFromStr(struct_name, field_name, value) ==
    LET is_nullable == starts_with(value, <<"?">>)
        value1 == IF is_nullable THEN SubSeq(value, 2, Len(value)) ELSE value
        is_multiple == starts_with(value1, <<"[", "]">>)
        value2 == IF is_multiple THEN SubSeq(value1, 3, Len(value1)) ELSE value1
        _parts == split(value2, <<";", " ">>)
        description == get(_parts, 1)
        _dtype_parts == split(_parts[1], <<"~">>)
        dtype == _dtype_parts[1]
        extra == get(_dtype_parts, 1)
    IN IF PrimitiveKind(dtype) # ""
       THEN ROk(ZetroField(description, field_name, FieldKind(PrimitiveKind(dtype), <<>>),
                           is_nullable, is_multiple, FALSE))
       ELSE IF dtype = Chars.enum
       THEN EnumKind(struct_name, field_name, extra, is_nullable, is_multiple, description)
       ELSE IF dtype = Chars.struct
       THEN StructKind(struct_name, field_name, extra, is_nullable, is_multiple, description)
       ELSE RErr(BadFieldValue(field_name, "string or object"),
                 OffenderField(struct_name, field_name))

RECURSIVE ZetroField_from_value(_, _, _)
RECURSIVE ZetroStruct_from_value(_, _)

\* faulty variant of description_or_err: a struct without description gets ""
description_or_empty(struct_name, description) ==
    ROk(IF description.some THEN description.v ELSE <<>>)

\* the description of a struct, which must be there
description_or_err(struct_name, description) ==
    IF ~description.some
    THEN RErr(MissingField(Chars.description), OffenderStruct(struct_name))
    ELSE ROk(description.v)

\* the members of a struct object, one by one
RECURSIVE StructMembers(_, _, _, _)
StructMembers(struct_name, members, i, acc) ==
    IF i > Len(members) THEN ROk(acc)
    ELSE LET key == members[i][1]
             val == members[i][2]
         IN IF key = Chars.description
            THEN IF as_str(val).some
                 THEN StructMembers(struct_name, members, i + 1,
                                    [acc EXCEPT !.description = as_str(val)])
                 ELSE RErr(BadFieldValue(Chars.description, "a string"),
                           OffenderField(struct_name, Chars.description))
            ELSE IF key = Chars.multiple
            THEN IF as_bool(val).some
                 THEN StructMembers(struct_name, members, i + 1,
                                    [acc EXCEPT !.multiple = val.v])
                 ELSE RErr(BadFieldValue(Chars.multiple, "a boolean"),
                           OffenderField(struct_name, Chars.multiple))
            ELSE IF key = Chars.nullable
            THEN IF as_bool(val).some
                 THEN StructMembers(struct_name, members, i + 1,
                                    [acc EXCEPT !.nullable = val.v])
                 ELSE RErr(BadFieldValue(Chars.nullable, "a boolean"),
                           OffenderField(struct_name, Chars.nullable))
            ELSE IF key = Chars.fields
            THEN IF as_object(val).some
                 THEN StructMembers(struct_name, members, i + 1,
                                    [acc EXCEPT !.schema_fields = as_object(val)])
                 ELSE RErr(BadFieldValue(Chars.fields, "an object"),
                           OffenderField(struct_name, Chars.fields))
            ELSE RErr(UnrecognizedField(key), OffenderStruct(struct_name))

\* Map::keys
keys(map) == [i \in DOMAIN map |-> map[i][1]]

\* the fields of a struct, parsed in the order of fields_sorted
RECURSIVE StructFields(_, _, _, _)
StructFields(struct_name, schema_fields, fields_sorted, fields) ==
    IF fields_sorted = <<>> THEN ROk(fields)
    ELSE CHOOSE result \in
            {IF field.tag # "Ok" THEN field
             ELSE StructFields(struct_name, schema_fields, Tail(fields_sorted),
                               Append(fields, field.v)) :
                field \in {ZetroField_from_value(struct_name, Head(fields_sorted),
                                                 map_get(schema_fields,
                                                         Head(fields_sorted)).v)}} : TRUE

ZetroStruct_from_value(struct_name, value) ==
    IF ~as_object(value).some
    THEN RErr(BadFieldValue(struct_name, "an object"), OffenderStruct(struct_name))
    ELSE CHOOSE result \in
            {IF members.tag # "Ok" THEN members
             ELSE IF description_or_err(struct_name, members.v.description).tag # "Ok"
             THEN description_or_err(struct_name, members.v.description)
             ELSE IF ~members.v.schema_fields.some
             THEN RErr(MissingField(Chars.fields), OffenderField(struct_name, Chars.fields))
             ELSE CHOOSE struct \in
                     {IF fields.tag # "Ok" THEN fields
                      ELSE ROk(ZetroStruct(struct_name,
                                           description_or_err(struct_name,
                                                              members.v.description).v,
                                           members.v.nullable, members.v.multiple, fields.v)) :
                         fields \in {StructFields(struct_name, members.v.schema_fields.v,
                                                  sort(keys(members.v.schema_fields.v)),
                                                  <<>>)}} : TRUE :
                members \in {StructMembers(struct_name, value.v, 1,
                                           [description |-> None, multiple |-> FALSE,
                                            nullable |-> FALSE,
                                            schema_fields |-> None])}} : TRUE

ZetroField_from_value(struct_name, field_name, value) ==
    IF value.t = "object"
    THEN CHOOSE field \in
            {IF nested_struct.tag # "Ok" THEN nested_struct
             ELSE ROk(ZetroField(None, field_name, FieldKind("NestedObject", nested_struct.v),
                                 nested_struct.v.is_nullable, nested_struct.v.is_multiple,
                                 FALSE)) :
                nested_struct \in
                    {ZetroStruct_from_value(generate_nested_struct_name(struct_name,
                                                                        field_name),
                                            value)}} : TRUE
    ELSE IF ~as_str(value).some THEN Panic("not yet implemented")
    ELSE FieldFromStr(struct_name, field_name, value.v)

ZetroEnum(name, variants) == [name |-> name, variants |-> variants]

ZetroEnum_from_value(enum_name, value) ==
    IF ~as_array(value).some
    THEN RErr(BadFieldValue(enum_name, "list of strings"), OffenderEnum(enum_name))
    ELSE IF \E i \in DOMAIN value.v : ~as_str(value.v[i]).some
    THEN RErr(BadFieldValue(enum_name, "a list of strings"), OffenderEnum(enum_name))
    ELSE ROk(ZetroEnum(enum_name, [i \in DOMAIN value.v |-> value.v[i].v]))

RouteKind_from_value(route_name, value) ==
    IF ~as_str(value).some
    THEN RErr(BadFieldValue(Chars.kind, "a string"), OffenderField(route_name, Chars.kind))
    ELSE IF value.v = Chars.query THEN ROk("Query")
    ELSE IF value.v = Chars.mutation THEN ROk("Mutation")
    ELSE RErr(BadFieldValue(Chars.kind, "one of 'query' or 'mutation'"),
              OffenderField(route_name, Chars.kind))

\* faulty variant of RouteBody: the body is taken whatever its kind
RouteBody_any(route_name, v, key) ==
    IF ~map_get(v, key).some THEN RErr(MissingField(key), OffenderRoute(route_name))
    ELSE ZetroField_from_value(route_name, key, map_get(v, key).v)

\* the request or the response of a route: parsed as a field, and refused
\* when it is a nested object
RouteBody(route_name, v, key) ==
    IF ~map_get(v, key).some THEN RErr(MissingField(key), OffenderRoute(route_name))
    ELSE CHOOSE result \in
            {IF body.tag # "Ok" THEN body
             ELSE IF body.v.kind.k = "NestedObject"
             THEN RErr(BadFieldValue(key, "not a nested object"), OffenderRoute(route_name))
             ELSE body :
                body \in {ZetroField_from_value(route_name, key, map_get(v, key).v)}} : TRUE

ZetroRoute_from_value(route_name, value) ==
    IF ~as_object(value).some
    THEN RErr(BadFieldValue(route_name, "an object"), OffenderRoute(route_name))
    ELSE LET v == value.v
             kind == IF map_get(v, Chars.kind).some
                     THEN RouteKind_from_value(route_name, map_get(v, Chars.kind).v)
                     ELSE RErr(MissingField(Chars.kind), OffenderRoute(route_name))
             description ==
                 IF ~map_get(v, Chars.description).some
                 THEN RErr(MissingField(Chars.description), OffenderRoute(route_name))
                 ELSE IF ~as_str(map_get(v, Chars.description).v).some
                 THEN RErr(BadFieldValue(Chars.description, "string"),
                           OffenderField(route_name, Chars.description))
                 ELSE ROk(map_get(v, Chars.description).v.v)
         IN IF kind.tag # "Ok" THEN kind
            ELSE IF description.tag # "Ok" THEN description
            ELSE CHOOSE result \in
                    {IF bodies[1].tag # "Ok" THEN bodies[1]
                     ELSE IF bodies[2].tag # "Ok" THEN bodies[2]
                     ELSE ROk(ZetroRoute(kind.v, route_name, bodies[1].v, bodies[2].v)) :
                        bodies \in {[i \in 1..2 |->
                                        RouteBody(route_name, v,
                                                  <<Chars.request, Chars.response>>[i])]}} : TRUE

ZetroSchema(structs, enums, schema_queries, schema_mutations) ==
    [structs |-> structs, enums |-> enums,
     queries |-> schema_queries, mutations |-> schema_mutations]

RECURSIVE check_struct(_, _, _, _)

\* check_field; a nested object is checked field by field
check_field(struct_manifest, enum_manifest, field) ==
    IF field.kind.k = "StructValue"
    THEN IF field.kind.x \notin struct_manifest
         THEN RErr(InvalidReference(field.kind.x), OffenderField(field.kind.x, field.name))
         ELSE ROk(<<>>)
    ELSE IF field.kind.k = "EnumValue"
    THEN IF field.kind.x \notin enum_manifest
         THEN RErr(InvalidReference(field.kind.x), OffenderField(field.kind.x, field.name))
         ELSE ROk(<<>>)
    ELSE IF field.kind.k = "NestedObject"
    THEN check_struct(struct_manifest, enum_manifest, field.kind.x.fields, 1)
    ELSE ROk(<<>>)

\* check_struct, from field i of the struct on
check_struct(struct_manifest, enum_manifest, fields, i) ==
    IF i > Len(fields) THEN ROk(<<>>)
    ELSE CHOOSE result \in
            {IF checked.tag # "Ok" THEN checked
             ELSE check_struct(struct_manifest, enum_manifest, fields, i + 1) :
                checked \in {check_field(struct_manifest, enum_manifest, fields[i])}} : TRUE

\* the fields check_schema checks, in its order: the fields of the structs,
\* then request and response of the queries, then those of the mutations
CheckedFields(schema) ==
    LET RECURSIVE StructsFields(_)
        StructsFields(i) ==
            IF i > Len(schema.structs) THEN <<>>
            ELSE schema.structs[i].fields \o StructsFields(i + 1)
        RECURSIVE Bodies_(_, _)
        Bodies_(routes, i) ==
            IF i > Len(routes) THEN <<>>
            ELSE <<routes[i].request_body, routes[i].response_body>> \o Bodies_(routes, i + 1)
    IN StructsFields(1) \o Bodies_(schema.queries, 1) \o Bodies_(schema.mutations, 1)

\* faulty variant of check_schema: one manifest for structs and enums
check_schema_one_manifest(schema) ==
    check_struct({schema.structs[i].name : i \in DOMAIN schema.structs}
                    \cup {schema.enums[i].name : i \in DOMAIN schema.enums},
                 {schema.structs[i].name : i \in DOMAIN schema.structs}
                    \cup {schema.enums[i].name : i \in DOMAIN schema.enums},
                 CheckedFields(schema), 1)

check_schema(schema) ==
    LET enum_manifest == {schema.enums[i].name : i \in DOMAIN schema.enums}
        struct_manifest == {schema.structs[i].name : i \in DOMAIN schema.structs}
    IN check_struct(struct_manifest, enum_manifest, CheckedFields(schema), 1)

\* the members of the schema object, one by one
RECURSIVE SchemaMembers(_, _, _)
SchemaMembers(members, i, acc) ==
    IF i > Len(members) THEN ROk(acc)
    ELSE LET key == members[i][1]
             val == members[i][2]
         IN IF key \notin {Chars.structs, Chars.enums, Chars.routes}
            THEN RErr(UnrecognizedField(key), OffenderFile(<<"schema.json">>))
            ELSE IF ~as_object(val).some
            THEN RErr(BadFieldValue(key, "an object"), OffenderFile(<<"schema.json">>))
            ELSE IF key = Chars.structs
            THEN SchemaMembers(members, i + 1, [acc EXCEPT !.schema_structs = val.v])
            ELSE IF key = Chars.enums
            THEN SchemaMembers(members, i + 1, [acc EXCEPT !.schema_enums = val.v])
            ELSE SchemaMembers(members, i + 1, [acc EXCEPT !.schema_routes = val.v])

\* faulty variant of TopLevelStruct: the modifiers are not looked at
TopLevelStruct_any(struct_name, fields) ==
    ZetroStruct_from_value(struct_name, fields)

\* one struct of "structs": parsed, and refused when nullable or multiple
TopLevelStruct(struct_name, fields) ==
    CHOOSE result \in
        {IF _struct.tag # "Ok" THEN _struct
         ELSE IF _struct.v.is_nullable
         THEN RErr(BadFieldValue(Chars.nullable, "[empty]"), OffenderStruct(struct_name))
         ELSE IF _struct.v.is_multiple
         THEN RErr(BadFieldValue(Chars.multiple, "[empty]"), OffenderStruct(struct_name))
         ELSE _struct :
            _struct \in {ZetroStruct_from_value(struct_name, fields)}} : TRUE

\* the loops over "structs", "enums" and "routes": each member is parsed
\* and pushed, the first error is returned
RECURSIVE ParseAll(_, _, _, _)
ParseAll(key, map, i, out) ==
    IF i > Len(map) THEN ROk(out)
    ELSE CHOOSE result \in
            {IF item.tag # "Ok" THEN item
             ELSE ParseAll(key, map, i + 1, Append(out, item.v)) :
                item \in {IF key = Chars.structs THEN TopLevelStruct(map[i][1], map[i][2])
                          ELSE IF key = Chars.enums
                          THEN ZetroEnum_from_value(map[i][1], map[i][2])
                          ELSE ZetroRoute_from_value(map[i][1], map[i][2])}} : TRUE

SelectKind(routes, kind) == SelectSeq(routes, LAMBDA route : route.kind = kind)

ZetroSchema_from_value(value) ==
    IF ~as_object(value).some
    THEN RErr(BadFieldValue(<<"schema.json">>, "an object"), OffenderFile(<<"schema.json">>))
    ELSE CHOOSE result \in
            {IF members.tag # "Ok" THEN members
             ELSE CHOOSE parsed_all \in
                     {IF all[1].tag # "Ok" THEN all[1]
                      ELSE IF all[2].tag # "Ok" THEN all[2]
                      ELSE IF all[3].tag # "Ok" THEN all[3]
                      ELSE CHOOSE checked_schema \in
                              {IF checked.tag # "Ok" THEN checked
                               ELSE ROk(ZetroSchema(all[1].v, all[2].v,
                                                    SelectKind(all[3].v, "Query"),
                                                    SelectKind(all[3].v, "Mutation"))) :
                                  checked \in
                                      {check_schema(
                                          ZetroSchema(all[1].v, all[2].v,
                                                      SelectKind(all[3].v, "Query"),
                                                      SelectKind(all[3].v, "Mutation")))}} : TRUE :
                         all \in {[i \in 1..3 |->
                                      ParseAll(<<Chars.structs, Chars.enums, Chars.routes>>[i],
                                               <<members.v.schema_structs,
                                                 members.v.schema_enums,
                                                 members.v.schema_routes>>[i],
                                               1, <<>>)]}} : TRUE :
                members \in {SchemaMembers(value.v, 1,
                                           [schema_structs |-> <<>>, schema_enums |-> <<>>,
                                            schema_routes |-> <<>>])}} : TRUE

(***************************************************************************)
(* The schema documents handed to the parser.                              *)
(***************************************************************************)
\* the names the documents use
Names ==
    [P |-> <<"P">>, Q |-> <<"Q">>, E |-> <<"E">>, B |-> <<"B">>, a |-> <<"a">>,
     ab |-> <<"a", "b">>, P_a |-> <<"P", "_", "a">>, P_a_B |-> <<"P", "_", "a", "_", "B">>,
     blob |-> <<"b", "l", "o", "b">>, d |-> <<"d">>,
     d_e |-> <<"d", ";", " ", "e">>, a_b |-> <<"a", "~", "b">>,
     r |-> <<"r">>]

\* the text of a field: "?" when nullable, "[]" when multiple (the other way
\* round when swapped), the dtype, "~" and the referent, "; " and the description
Render(g) ==
    (IF g.swapped THEN <<"[", "]", "?">>
     ELSE (IF g.nullable THEN <<"?">> ELSE <<>>) \o (IF g.multiple THEN <<"[", "]">> ELSE <<>>))
    \o g.dtype
    \o (IF g.extra.some THEN <<"~">> \o g.extra.v ELSE <<>>)
    \o (IF g.description.some THEN <<";", " ">> \o g.description.v ELSE <<>>)

PrimitiveDtypes ==
    {Chars.string, Chars.i8, Chars.u8, Chars.i16, Chars.u16, Chars.i32, Chars.u32,
     Chars.i64, Chars.u64, Chars.f32, Chars.f64, Chars.bool}

Dtypes == PrimitiveDtypes \cup {Chars.enum, Chars.struct}

\* the field texts: every combination of the parts of the grammar
Grammar ==
    {g \in [nullable : BOOLEAN, multiple : BOOLEAN, swapped : BOOLEAN,
            dtype : Dtypes \cup {Names.blob},
            extra : {None, Some(Names.P), Some(Names.E)},
            description : {None, Some(<<>>), Some(Names.d), Some(Names.d_e), Some(Names.a_b)}] :
        g.swapped => g.nullable /\ g.multiple}

\* a struct object: its members in the order of the document
StructDoc(meta, fields_first, schema_fields) ==
    JObj(IF fields_first THEN <<<<Chars.fields, schema_fields>>>> \o meta
         ELSE meta \o <<<<Chars.fields, schema_fields>>>>)

\* a well-formed inner object with two fields, given out of order
InnerDoc ==
    StructDoc(<<<<Chars.description, JStr(Names.d)>>>>, FALSE,
              JObj(<<<<Names.a, JStr(Chars.u8)>>, <<Names.B, JStr(Chars.string)>>>>))

\* the values a member of "fields" takes in the documents
FieldValues ==
    {JStr(Chars.string),
     JStr(Render([nullable |-> TRUE, multiple |-> FALSE, swapped |-> FALSE,
                  dtype |-> Chars.struct, extra |-> Some(Names.P), description |-> None])),
     JStr(Render([nullable |-> FALSE, multiple |-> FALSE, swapped |-> FALSE,
                  dtype |-> Chars.struct, extra |-> Some(Names.P_a), description |-> None])),
     JStr(Render([nullable |-> FALSE, multiple |-> TRUE, swapped |-> FALSE,
                  dtype |-> Chars.enum, extra |-> Some(Names.E),
                  description |-> Some(Names.d)])),
     InnerDoc,
     \* an inner object that holds an inner object
     StructDoc(<<<<Chars.description, JStr(Names.d)>>>>, TRUE,
               JObj(<<<<Names.a, JStr(Chars.bool)>>, <<Names.B, InnerDoc>>>>)),
     \* an inner object without description
     StructDoc(<<>>, FALSE, JObj(<<<<Names.a, JStr(Chars.u8)>>>>)),
     \* an inner object that holds an inner object without description
     StructDoc(<<<<Chars.description, JStr(Names.d)>>>>, FALSE,
               JObj(<<<<Names.B, StructDoc(<<>>, FALSE, JObj(<<>>))>>>>))}

FieldNames == {Names.B, Names.a, Names.ab}

\* the "fields" objects: up to MaxFields members of distinct names, any order
FieldsDocs ==
    {JObj([i \in DOMAIN names |-> <<names[i], values[i]>>]) :
        <<names, values>> \in
            UNION {{nv \in [1..k -> FieldNames] \X [1..k -> FieldValues] :
                        \A i, j \in 1..k : i # j => nv[1][i] # nv[1][j]} :
                   k \in 0..MaxFields}}

\* the other members of a struct object
Metas ==
    {<<<<Chars.description, JStr(Names.d)>>>>,
     <<>>,
     <<<<Chars.description, JBool(TRUE)>>>>,
     <<<<Chars.description, JStr(Names.d)>>, <<Chars.nullable, JBool(TRUE)>>>>,
     <<<<Chars.multiple, JBool(TRUE)>>, <<Chars.description, JStr(Names.d)>>>>,
     <<<<Chars.description, JStr(Names.d)>>, <<Chars.nullable, JBool(FALSE)>>,
       <<Chars.multiple, JBool(FALSE)>>>>,
     <<<<Names.blob, JBool(TRUE)>>>>}

StructDocs ==
    {StructDoc(meta, fields_first, schema_fields) :
        meta \in Metas, fields_first \in BOOLEAN, schema_fields \in FieldsDocs}
    \cup {JObj(meta) : meta \in Metas}
    \cup {StructDoc(<<>>, FALSE, JNum(5)), JStr(Chars.string)}

(***************************************************************************)
(* Calls of the parser: each records its input and what it returned.       *)
(***************************************************************************)
FieldFromValue ==
    /\ parsed.op = "none"
    /\ \E struct_name \in {Names.P, Names.Q}, g \in Grammar :
         parsed' = [op |-> "field", struct_name |-> struct_name, g |-> g,
                    input |-> JStr(Render(g)),
                    result |-> ZetroField_from_value(struct_name, Names.a, JStr(Render(g)))]
    /\ UNCHANGED <<tokens, runs, conn, db, client, proc, ctx>>

StructFromValue ==
    /\ parsed.op = "none"
    /\ \E value \in StructDocs :
         parsed' = [op |-> "struct", input |-> value,
                    result |-> ZetroStruct_from_value(Names.P, value)]
    /\ UNCHANGED <<tokens, runs, conn, db, client, proc, ctx>>

\* the text of a reference
Ref(dtype, name) == JStr(dtype \o <<"~">> \o name)

\* a route object: absent members are left out
RouteDoc(kind, description, request, response) ==
    JObj((IF kind.some THEN <<<<Chars.kind, kind.v>>>> ELSE <<>>)
         \o (IF description.some THEN <<<<Chars.description, description.v>>>> ELSE <<>>)
         \o (IF request.some THEN <<<<Chars.request, request.v>>>> ELSE <<>>)
         \o (IF response.some THEN <<<<Chars.response, response.v>>>> ELSE <<>>))

RouteDocs ==
    {RouteDoc(kind, description, request, response) :
        kind \in {None, Some(JStr(Chars.query)), Some(JStr(Chars.mutation)),
                  Some(JStr(Names.blob))},
        description \in {None, Some(JStr(Names.d))},
        request \in {None} \cup {Some(v) : v \in FieldValues},
        response \in {None} \cup {Some(v) : v \in FieldValues}}
    \cup {RouteDoc(Some(JStr(Chars.query)), Some(JStr(Names.d)),
                    Some(Ref(Chars.struct, Names.P)), Some(JStr(Chars.u8))),
          RouteDoc(Some(JStr(Chars.mutation)), Some(JStr(Names.d)),
                    Some(JStr(Chars.u8)), Some(Ref(Chars.struct, Names.P))),
          JStr(Chars.string)}

RouteFromValue ==
    /\ parsed.op = "none"
    /\ \E route_name \in {Names.r, Names.P}, value \in RouteDocs :
         parsed' = [op |-> "route", route_name |-> route_name, input |-> value,
                    result |-> ZetroRoute_from_value(route_name, value)]
    /\ UNCHANGED <<tokens, runs, conn, db, client, proc, ctx>>

\* a struct object with a description and the given fields
PlainStruct(schema_fields) ==
    StructDoc(<<<<Chars.description, JStr(Names.d)>>>>, FALSE, JObj(schema_fields))

\* the struct objects of the schema documents
SchemaStructDocs ==
    {PlainStruct(<<<<Names.a, JStr(Chars.string)>>>>),
     PlainStruct(<<<<Names.a, Ref(Chars.struct, Names.Q)>>>>),
     PlainStruct(<<<<Names.a, Ref(Chars.struct, Names.P)>>>>),
     PlainStruct(<<<<Names.a, Ref(Chars.enum, Names.E)>>>>),
     PlainStruct(<<<<Names.a, Ref(Chars.enum, Names.Q)>>>>),
     PlainStruct(<<<<Names.a, InnerDoc>>, <<Names.B, JStr(Chars.u8)>>>>),
     PlainStruct(<<<<Names.a, InnerDoc>>, <<Names.B, Ref(Chars.struct, Names.P_a)>>>>),
     \* a reference nested one level down, and one nested two levels down
     PlainStruct(<<<<Names.a, PlainStruct(<<<<Names.B, Ref(Chars.struct, Names.Q)>>>>)>>>>),
     PlainStruct(<<<<Names.a,
                     PlainStruct(<<<<Names.B,
                                     PlainStruct(<<<<Names.a, Ref(Chars.enum, Names.E)>>>>)>>>>)>>>>),
     StructDoc(<<<<Chars.description, JStr(Names.d)>>, <<Chars.nullable, JBool(TRUE)>>>>,
               FALSE, JObj(<<<<Names.a, JStr(Chars.string)>>>>)),
     StructDoc(<<<<Chars.multiple, JBool(TRUE)>>, <<Chars.description, JStr(Names.d)>>>>,
               TRUE, JObj(<<<<Names.a, JStr(Chars.string)>>>>)),
     StructDoc(<<>>, FALSE, JObj(<<<<Names.a, JStr(Chars.string)>>>>))}

\* the "structs" objects: structs of distinct names among P and Q, any order
SchemaStructs ==
    {<<>>}
    \cup {<<<<n, doc>>>> : n \in {Names.P, Names.Q}, doc \in SchemaStructDocs}
    \cup {<<<<n[1], doc1>>, <<n[2], doc2>>>> :
            n \in {<<Names.P, Names.Q>>, <<Names.Q, Names.P>>},
            doc1 \in SchemaStructDocs, doc2 \in SchemaStructDocs}

\* the "enums" objects
SchemaEnums ==
    {<<>>,
     <<<<Names.E, JArr(<<JStr(Names.a), JStr(Names.B)>>)>>>>,
     <<<<Names.Q, JArr(<<JStr(Names.a)>>)>>>>,
     <<<<Names.E, JArr(<<JStr(Names.a), JNum(5)>>)>>>>}

\* the "routes" objects
SchemaRoutes ==
    {<<>>,
     <<<<Names.r, RouteDoc(Some(JStr(Chars.query)), Some(JStr(Names.d)),
                           Some(JStr(Chars.string)), Some(JStr(Chars.u8)))>>>>,
     <<<<Names.r, RouteDoc(Some(JStr(Chars.mutation)), Some(JStr(Names.d)),
                           Some(Ref(Chars.struct, Names.P)),
                           Some(Ref(<<"?", "[", "]">> \o Chars.enum, Names.E)))>>>>,
     <<<<Names.r, RouteDoc(Some(JStr(Chars.query)), Some(JStr(Names.d)),
                           Some(Ref(Chars.enum, Names.Q)),
                           Some(Ref(Chars.struct, Names.P_a)))>>>>,
     <<<<Names.r, RouteDoc(Some(JStr(Chars.query)), Some(JStr(Names.d)),
                           Some(InnerDoc), Some(JStr(Chars.u8)))>>>>,
     <<<<Names.r, RouteDoc(Some(JStr(Chars.mutation)), Some(JStr(Names.d)),
                           Some(JStr(Chars.u8)), Some(InnerDoc))>>>>,
     <<<<Names.P, RouteDoc(Some(JStr(Chars.query)), Some(JStr(Names.d)),
                           Some(Ref(Chars.struct, Names.P)), Some(JStr(Chars.u8)))>>>>,
     <<<<Names.r, RouteDoc(None, Some(JStr(Names.d)),
                           Some(JStr(Chars.string)), Some(JStr(Chars.u8)))>>>>}

\* the schema documents: "structs", "enums" and "routes", each left out
\* when empty
SchemaDocs ==
    {JObj((IF schema_structs # <<>> THEN <<<<Chars.structs, JObj(schema_structs)>>>> ELSE <<>>)
          \o (IF schema_enums # <<>> THEN <<<<Chars.enums, JObj(schema_enums)>>>> ELSE <<>>)
          \o (IF schema_routes # <<>> THEN <<<<Chars.routes, JObj(schema_routes)>>>> ELSE <<>>)) :
        schema_structs \in SchemaStructs, schema_enums \in SchemaEnums,
        schema_routes \in SchemaRoutes}
    \cup {JObj(<<<<Chars.structs, JNum(5)>>>>), JObj(<<<<Names.blob, JObj(<<>>)>>>>),
          JStr(Chars.string)}

SchemaFromValue ==
    /\ parsed.op = "none"
    /\ \E value \in SchemaDocs :
         parsed' = [op |-> "schema", input |-> value,
                    result |-> ZetroSchema_from_value(value)]
    /\ UNCHANGED <<tokens, runs, conn, db, client, proc, ctx>>

\* the schema parser, called once on a document
InitSchema ==
    /\ tokens = <<>>
    /\ runs = <<>>
    /\ conn = <<>>
    /\ db = 0
    /\ client = [pc |-> "off"]
    /\ parsed = NoCall
    /\ proc = NoProc
    /\ ctx = NoContext

NextSchema ==
    \/ FieldFromValue
    \/ StructFromValue
    \/ RouteFromValue
    \/ SchemaFromValue

SpecSchema == InitSchema /\ [][NextSchema]_vars

(***************************************************************************)
(* Properties of the schema parser.                                        *)
(***************************************************************************)
\* the fields of a struct and of the objects nested in it ascend strictly
RECURSIVE Ascending(_)
Ascending(struct) ==
    /\ \A i \in 1..(Len(struct.fields) - 1) :
         StrLess(struct.fields[i].name, struct.fields[i + 1].name)
    /\ \A i \in DOMAIN struct.fields :
         struct.fields[i].kind.k = "NestedObject" => Ascending(struct.fields[i].kind.x)

\* C11: the field sequence of every struct ZetroStruct::from_value produces,
\* and of every object nested in it at any depth, is in strictly ascending
\* byte order of the field names, whatever the order of the keys in the
\* document.
C11_FieldsSorted ==
    (parsed.op = "struct" /\ parsed.result.tag = "Ok") => Ascending(parsed.result.v)

\* a struct given as "a" then "B", whose "a" is an object given as "a" then
\* "B": both come out as "B" then "a"
C11_Witness ==
    /\ parsed.op = "struct"
    /\ parsed.result.tag = "Ok"
    /\ Len(parsed.result.v.fields) = 2
    /\ keys(map_get(parsed.input.v, Chars.fields).v.v) = <<Names.a, Names.B>>
    /\ map_get(map_get(parsed.input.v, Chars.fields).v.v, Names.a).v = InnerDoc
    /\ [i \in 1..2 |-> parsed.result.v.fields[i].name] = <<Names.B, Names.a>>
    /\ [i \in 1..2 |-> parsed.result.v.fields[2].kind.x.fields[i].name] = <<Names.B, Names.a>>

\* the kind the grammar names by a dtype and its referent
KindNamed(g) ==
    CASE g.dtype = Chars.enum -> [k |-> "EnumValue", x |-> g.extra.v]
      [] g.dtype = Chars.struct -> [k |-> "StructValue", x |-> g.extra.v]
      [] g.dtype = Chars.string -> [k |-> "StringValue", x |-> <<>>]
      [] g.dtype = Chars.i8 -> [k |-> "Int8", x |-> <<>>]
      [] g.dtype = Chars.u8 -> [k |-> "UInt8", x |-> <<>>]
      [] g.dtype = Chars.i16 -> [k |-> "Int16", x |-> <<>>]
      [] g.dtype = Chars.u16 -> [k |-> "UInt16", x |-> <<>>]
      [] g.dtype = Chars.i32 -> [k |-> "Int32", x |-> <<>>]
      [] g.dtype = Chars.u32 -> [k |-> "UInt32", x |-> <<>>]
      [] g.dtype = Chars.i64 -> [k |-> "Int64", x |-> <<>>]
      [] g.dtype = Chars.u64 -> [k |-> "UInt64", x |-> <<>>]
      [] g.dtype = Chars.f32 -> [k |-> "Float32", x |-> <<>>]
      [] g.dtype = Chars.f64 -> [k |-> "Float64", x |-> <<>>]
      [] g.dtype = Chars.bool -> [k |-> "Boolean", x |-> <<>>]

\* a text of the grammar that names a referent where one is needed and is
\* not a bare reference of a struct to itself
WellFormed(struct_name, g) ==
    /\ ~g.swapped
    /\ g.dtype \in Dtypes
    /\ g.dtype \in {Chars.enum, Chars.struct} => g.extra.some
    /\ ~(g.dtype = Chars.struct /\ g.extra = Some(struct_name)
         /\ ~g.nullable /\ ~g.multiple)

\* C12: a field text of the grammar with a dtype of the closed set gives a
\* field that is nullable iff the text starts with "?", multiple iff "[]"
\* follows, of the kind the dtype names (with the referent for enum and
\* struct) and with the whole text after the first "; " as description
\* (absent without "; "); a text with the modifiers the other way round or
\* with a dtype outside the closed set is rejected with BadFieldValue.
C12_FieldGrammar ==
    parsed.op = "field" =>
        /\ WellFormed(parsed.struct_name, parsed.g) =>
             /\ parsed.result.tag = "Ok"
             /\ parsed.result.v.is_nullable = parsed.g.nullable
             /\ parsed.result.v.is_multiple = parsed.g.multiple
             /\ parsed.result.v.kind = KindNamed(parsed.g)
             /\ parsed.result.v.description = parsed.g.description
        /\ (parsed.g.swapped \/ parsed.g.dtype \notin Dtypes) =>
             /\ parsed.result.tag = "Err"
             /\ parsed.result.v.kind.k = "BadFieldValue"

\* every field marked recursive in a struct, at any depth, is nullable or
\* multiple
RECURSIVE RecursiveGuarded(_)
RecursiveGuarded(fields) ==
    \A i \in DOMAIN fields :
        /\ fields[i].is_recursive => fields[i].is_nullable \/ fields[i].is_multiple
        /\ fields[i].kind.k = "NestedObject" => RecursiveGuarded(fields[i].kind.x.fields)

\* C13: a field f of struct S that refers to struct S itself is parsed and
\* marked recursive when it is nullable or multiple, and is rejected with
\* BadFieldValue and offender field (S, f) when it is neither; so every
\* field marked recursive in a parsed struct is nullable or multiple.
C13_SelfReference ==
    /\ (/\ parsed.op = "field"
        /\ ~parsed.g.swapped
        /\ parsed.g.dtype = Chars.struct
        /\ parsed.g.extra = Some(parsed.struct_name)) =>
           IF parsed.g.nullable \/ parsed.g.multiple
           THEN /\ parsed.result.tag = "Ok"
                /\ parsed.result.v.is_recursive
                /\ parsed.result.v.kind = [k |-> "StructValue", x |-> parsed.struct_name]
           ELSE /\ parsed.result.tag = "Err"
                /\ parsed.result.v.kind.k = "BadFieldValue"
                /\ parsed.result.v.offender = OffenderField(parsed.struct_name, Names.a)
    /\ (parsed.op = "struct" /\ parsed.result.tag = "Ok") =>
           RecursiveGuarded(parsed.result.v.fields)
    /\ (parsed.op = "schema" /\ parsed.result.tag = "Ok") =>
           /\ \A i \in DOMAIN parsed.result.v.structs :
                 RecursiveGuarded(parsed.result.v.structs[i].fields)
           /\ \A route \in Range(parsed.result.v.queries)
                             \cup Range(parsed.result.v.mutations) :
                 RecursiveGuarded(<<route.request_body, route.response_body>>)

\* "[]struct~P" as a field of P: multiple, not nullable, marked recursive
C13_Witness ==
    /\ parsed.op = "field"
    /\ parsed.input = JStr(<<"[", "]">> \o Chars.struct \o <<"~", "P">>)
    /\ parsed.struct_name = Names.P
    /\ parsed.result.tag = "Ok"
    /\ parsed.result.v.is_recursive
    /\ ~parsed.result.v.is_nullable

\* C19: a field text of dtype "enum" or "struct" without "~name" is rejected
\* with a schema error value that carries an offender, and no field is
\* produced.
C19_MissingNameRejected ==
    (/\ parsed.op = "field"
     /\ ~parsed.g.swapped
     /\ parsed.g.dtype \in {Chars.enum, Chars.struct}
     /\ ~parsed.g.extra.some) =>
        /\ parsed.result.tag = "Err"
        /\ parsed.result.v.offender.o \in {"Field", "Struct", "Enum", "Route", "File"}

\* a struct object without "description", or with such an object nested in
\* its "fields" at some depth
RECURSIVE LacksDescription(_)
LacksDescription(value) ==
    /\ value.t = "object"
    /\ \/ ~map_get(value.v, Chars.description).some
       \/ /\ map_get(value.v, Chars.fields).some
          /\ map_get(value.v, Chars.fields).v.t = "object"
          /\ \E i \in DOMAIN map_get(value.v, Chars.fields).v.v :
               LacksDescription(map_get(value.v, Chars.fields).v.v[i][2])

\* the keys of a struct object are recognized and their values of the
\* expected types
KeysRecognized(value) ==
    \A i \in DOMAIN value.v :
        \/ value.v[i][1] = Chars.description /\ value.v[i][2].t = "string"
        \/ value.v[i][1] \in {Chars.multiple, Chars.nullable} /\ value.v[i][2].t = "bool"
        \/ value.v[i][1] = Chars.fields /\ value.v[i][2].t = "object"

\* the name of the struct object whose missing description is the one defect
\* of the document along its chain of single nested objects; <<>> if none
RECURSIVE LacksOnlyDescription(_, _)
LacksOnlyDescription(name, value) ==
    IF value.t # "object" \/ ~KeysRecognized(value) THEN <<>>
    ELSE IF ~map_get(value.v, Chars.description).some THEN name
    ELSE IF /\ map_get(value.v, Chars.fields).some
            /\ Len(map_get(value.v, Chars.fields).v.v) = 1
    THEN LacksOnlyDescription(name \o <<"_">> \o map_get(value.v, Chars.fields).v.v[1][1],
                              map_get(value.v, Chars.fields).v.v[1][2])
    ELSE <<>>

\* C16: a struct object without "description" is rejected, at top level and
\* nested at any depth; when its keys are otherwise recognized the error is
\* MissingField("description") with the struct as offender; so no struct
\* that is accepted lacks a description.
C16_DescriptionRequired ==
    parsed.op = "struct" =>
        /\ LacksDescription(parsed.input) => parsed.result.tag = "Err"
        /\ LacksOnlyDescription(Names.P, parsed.input) # <<>> =>
             parsed.result = RErr(MissingField(Chars.description),
                                  OffenderStruct(LacksOnlyDescription(Names.P, parsed.input)))

\* an object without description, nested two levels down in a struct that
\* is otherwise well formed
C16_Witness ==
    /\ parsed.op = "struct"
    /\ parsed.input.t = "object"
    /\ map_get(parsed.input.v, Chars.description).some
    /\ LacksOnlyDescription(Names.P, parsed.input) = <<"P", "_", "B", "_", "B">>
    /\ parsed.result.tag = "Err"
    /\ parsed.result.v.kind = MissingField(Chars.description)

ends_with(text, suffix) ==
    /\ Len(suffix) <= Len(text)
    /\ SubSeq(text, Len(text) - Len(suffix) + 1, Len(text)) = suffix

\* the reference a field text makes: "struct~name" or "enum~name" after
\* the modifiers, before the description
TextRefs(text) ==
    LET parts == split(split(text, <<";", " ">>)[1], <<"~">>)
    IN IF Len(parts) < 2 THEN {}
       ELSE IF ends_with(parts[1], Chars.struct) THEN {[dtype |-> "struct", name |-> parts[2]]}
       ELSE IF ends_with(parts[1], Chars.enum) THEN {[dtype |-> "enum", name |-> parts[2]]}
       ELSE {}

\* the members of the object under a key of a document; none when the key
\* is absent or holds no object
MembersAt(value, key) ==
    IF value.t = "object" /\ map_get(value.v, key).some /\ map_get(value.v, key).v.t = "object"
    THEN map_get(value.v, key).v.v
    ELSE <<>>

\* the references in a field value: of its text, or of the fields of the
\* object at any depth
RECURSIVE Refs(_)
Refs(value) ==
    IF value.t = "string" THEN TextRefs(value.v)
    ELSE UNION {Refs(MembersAt(value, Chars.fields)[i][2]) :
                    i \in DOMAIN MembersAt(value, Chars.fields)}

\* the references of a schema document: in its structs and in the request
\* and response of its routes
SchemaRefs(value) ==
    UNION ({Refs(MembersAt(value, Chars.structs)[i][2]) :
                i \in DOMAIN MembersAt(value, Chars.structs)}
           \cup {Refs([t |-> "object",
                       v |-> <<<<Chars.fields, MembersAt(value, Chars.routes)[i][2]>>>>]) :
                    i \in DOMAIN MembersAt(value, Chars.routes)})

\* some reference of the document names no struct declared under "structs",
\* or no enum declared under "enums"
Unresolved(value) ==
    \E ref \in SchemaRefs(value) :
        \/ /\ ref.dtype = "struct"
           /\ ref.name \notin Range(keys(MembersAt(value, Chars.structs)))
        \/ /\ ref.dtype = "enum"
           /\ ref.name \notin Range(keys(MembersAt(value, Chars.enums)))

\* the structs, enums and routes of the document were all parsed: the
\* document was accepted or rejected by check_schema
Checked(result) ==
    \/ result.tag = "Ok"
    \/ result.tag = "Err" /\ result.v.kind.k = "InvalidReference"

RECURSIVE NestedNames(_, _)
NestedNames(name, value) ==
    UNION {IF MembersAt(value, Chars.fields)[i][2].t = "object"
           THEN {name \o <<"_">> \o MembersAt(value, Chars.fields)[i][1]}
                \cup NestedNames(name \o <<"_">> \o MembersAt(value, Chars.fields)[i][1],
                                 MembersAt(value, Chars.fields)[i][2])
           ELSE {} :
           i \in DOMAIN MembersAt(value, Chars.fields)}

\* every object nested in a parsed struct bears the name of the struct, "_"
\* and the name of its field
RECURSIVE NamedByPath(_)
NamedByPath(struct) ==
    \A i \in DOMAIN struct.fields :
        struct.fields[i].kind.k = "NestedObject" =>
            /\ struct.fields[i].kind.x.name = struct.name \o <<"_">> \o struct.fields[i].name
            /\ NamedByPath(struct.fields[i].kind.x)

\* C15: an object nested in field f of struct P is named "P_f" (and so on
\* for the objects nested in it), and that name is in the struct namespace:
\* a reference struct~P_f elsewhere in the schema resolves.
C15_NestedNameResolves ==
    parsed.op = "schema" =>
        /\ parsed.result.tag = "Ok" =>
             \A i \in DOMAIN parsed.result.v.structs : NamedByPath(parsed.result.v.structs[i])
        /\ (parsed.result.tag = "Err" /\ parsed.result.v.kind.k = "InvalidReference") =>
             parsed.result.v.kind.x[1] \notin
                 UNION {NestedNames(MembersAt(parsed.input, Chars.structs)[i][1],
                                    MembersAt(parsed.input, Chars.structs)[i][2]) :
                            i \in DOMAIN MembersAt(parsed.input, Chars.structs)}

\* a struct object declared with nullable: true or multiple: true
Flagged(value) ==
    /\ value.t = "object"
    /\ \/ map_get(value.v, Chars.nullable) = Some(JBool(TRUE))
       \/ map_get(value.v, Chars.multiple) = Some(JBool(TRUE))

\* a struct object with nothing wrong in itself: keys recognized,
\* descriptions there at every depth, fields there, no reference
SoundObject(value) ==
    /\ value.t = "object"
    /\ KeysRecognized(value)
    /\ ~LacksDescription(value)
    /\ map_get(value.v, Chars.fields).some
    /\ Refs(value) = {}

\* C17: ZetroSchema::from_value rejects every top-level struct declared with
\* nullable: true or multiple: true, with BadFieldValue and the struct as
\* offender; so every struct of an accepted schema has is_nullable and
\* is_multiple false.
C17_TopLevelStructsPlain ==
    parsed.op = "schema" =>
        /\ (\E i \in DOMAIN MembersAt(parsed.input, Chars.structs) :
                Flagged(MembersAt(parsed.input, Chars.structs)[i][2])) =>
             parsed.result.tag = "Err"
        /\ (/\ MembersAt(parsed.input, Chars.structs) # <<>>
            /\ Flagged(MembersAt(parsed.input, Chars.structs)[1][2])
            /\ SoundObject(MembersAt(parsed.input, Chars.structs)[1][2])) =>
             /\ parsed.result.tag = "Err"
             /\ parsed.result.v.kind.k = "BadFieldValue"
             /\ parsed.result.v.kind.x[1] \in {Chars.nullable, Chars.multiple}
             /\ parsed.result.v.offender =
                    OffenderStruct(MembersAt(parsed.input, Chars.structs)[1][1])
        /\ parsed.result.tag = "Ok" =>
             \A i \in DOMAIN parsed.result.v.structs :
                 /\ ~parsed.result.v.structs[i].is_nullable
                 /\ ~parsed.result.v.structs[i].is_multiple

\* struct Q declared with multiple: true, first in the document
C17_Witness ==
    /\ parsed.op = "schema"
    /\ MembersAt(parsed.input, Chars.structs) # <<>>
    /\ MembersAt(parsed.input, Chars.structs)[1][1] = Names.Q
    /\ map_get(MembersAt(parsed.input, Chars.structs)[1][2].v, Chars.multiple)
          = Some(JBool(TRUE))
    /\ parsed.result = RErr(BadFieldValue(Chars.multiple, "[empty]"), OffenderStruct(Names.Q))

\* the value under a key of a route object is an inline object
Inline(value, key) ==
    /\ value.t = "object"
    /\ map_get(value.v, key).some
    /\ map_get(value.v, key).v.t = "object"

\* kind and description of a route object are as they must be
RouteHeadSound(value) ==
    /\ map_get(value.v, Chars.kind).some
    /\ map_get(value.v, Chars.kind).v \in {JStr(Chars.query), JStr(Chars.mutation)}
    /\ map_get(value.v, Chars.description).some
    /\ map_get(value.v, Chars.description).v.t = "string"

\* C18: ZetroRoute::from_value rejects every route whose request or whose
\* response is an inline object, with BadFieldValue and the route as
\* offender; so no query or mutation of an accepted schema has a request
\* or response body of kind NestedObject.
C18_NoInlineBodies ==
    /\ parsed.op = "route" =>
        /\ (Inline(parsed.input, Chars.request) \/ Inline(parsed.input, Chars.response)) =>
             parsed.result.tag = "Err"
        /\ (/\ Inline(parsed.input, Chars.request)
            /\ RouteHeadSound(parsed.input)
            /\ SoundObject(map_get(parsed.input.v, Chars.request).v)) =>
             parsed.result = RErr(BadFieldValue(Chars.request, "not a nested object"),
                                  OffenderRoute(parsed.route_name))
        /\ (/\ Inline(parsed.input, Chars.response)
            /\ RouteHeadSound(parsed.input)
            /\ map_get(parsed.input.v, Chars.request).some
            /\ map_get(parsed.input.v, Chars.request).v.t = "string"
            /\ SoundObject(map_get(parsed.input.v, Chars.response).v)) =>
             parsed.result = RErr(BadFieldValue(Chars.response, "not a nested object"),
                                  OffenderRoute(parsed.route_name))
        /\ parsed.result.tag = "Ok" =>
             /\ parsed.result.v.request_body.kind.k # "NestedObject"
             /\ parsed.result.v.response_body.kind.k # "NestedObject"
    /\ (parsed.op = "schema" /\ parsed.result.tag = "Ok") =>
        \A route \in Range(parsed.result.v.queries) \cup Range(parsed.result.v.mutations) :
            /\ route.request_body.kind.k # "NestedObject"
            /\ route.response_body.kind.k # "NestedObject"

\* a mutation whose request is "string" and whose response is an inline
\* object
C18_Witness ==
    /\ parsed.op = "route"
    /\ parsed.input.t = "object"
    /\ map_get(parsed.input.v, Chars.kind) = Some(JStr(Chars.mutation))
    /\ map_get(parsed.input.v, Chars.request) = Some(JStr(Chars.string))
    /\ map_get(parsed.input.v, Chars.response) = Some(InnerDoc)
    /\ parsed.result = RErr(BadFieldValue(Chars.response, "not a nested object"),
                            OffenderRoute(parsed.route_name))

(***************************************************************************)
(* The generator (main): arguments, schema file, generation, output file.  *)
(***************************************************************************)
\* most arguments on a command line, the program name apart
MaxArgs == 3

\* str::to_lowercase, on the letters of ByteOrder
to_lowercase(v) ==
    [i \in DOMAIN v |->
        IF Ord(v[i]) >= Ord("A") /\ Ord(v[i]) <= Ord("Z")
        THEN ByteOrder[Ord(v[i]) + Ord("a") - Ord("A")]
        ELSE v[i]]

parse_bool(val) ==
    IF val \in {<<"t", "r", "u", "e">>, <<"1">>, <<"o", "n">>, <<"y", "e", "s">>, <<"t">>}
    THEN Some(TRUE)
    ELSE IF val \in {<<"f", "a", "l", "s", "e">>, <<"0">>, <<"o", "f", "f">>, <<"n", "o">>,
                     <<"f">>}
    THEN Some(FALSE)
    ELSE None

\* EmitLang::from_ext
from_ext(ext) ==
    IF ext \in {<<"t", "s">>, <<"t", "s", "x">>} THEN Some("Typescript")
    ELSE IF ext = <<"r", "s">> THEN Some("Rust")
    ELSE None

\* str::contains
contains(value, pat) == find(value, pat, 1) # 0

ZetroArgs(schema_file, out_file, language, field_casing, plugins, mangle, untagged) ==
    [schema_file |-> schema_file, out_file |-> out_file, language |-> language,
     field_casing |-> field_casing, plugins |-> plugins, mangle |-> mangle,
     untagged |-> untagged]

\* the checks of parse_args after the loop over the arguments
ArgsChecked(a) ==
    IF ~a.schema_file.some THEN [tag |-> "Err", v |-> "Missing option --schema"]
    ELSE IF ~a.out_file.some THEN [tag |-> "Err", v |-> "Missing option --out-file"]
    ELSE LET parts == split(a.out_file.v, <<".">>)
             language == IF a.language.some THEN a.language
                         ELSE from_ext(parts[Len(parts)])
         IN IF ~language.some
            THEN [tag |-> "Err", v |-> "Could not guess language from file extension."]
            ELSE IF a.field_casing.some /\ a.untagged_repr
            THEN [tag |-> "Err", v |-> "Can not use --field-casing and --untagged together."]
            ELSE IF /\ ~a.ignore_naming_convention
                    /\ ~contains(a.out_file.v, <<"-", "g", "e", "n", "e", "r", "a", "t", "e", "d">>)
                    /\ ~contains(a.out_file.v, <<"_", "g", "e", "n", "e", "r", "a", "t", "e", "d">>)
            THEN [tag |-> "Err", v |-> "The output filename does not contain the string"]
            ELSE ROk(ZetroArgs(a.schema_file.v, a.out_file.v, language.v, a.field_casing,
                               a.plugins, a.should_mangle, a.untagged_repr))

\* parse_args from argument i on; an argument is given as its parts between
\* the "=" signs
RECURSIVE ArgsLoop(_, _, _)
ArgsLoop(args, i, a) ==
    IF i > Len(args) THEN ArgsChecked(a)
    ELSE LET keyval == args[i]
             key == keyval[1]
             val == get(keyval, 1)
         IN IF key = "--schema"
            THEN IF ~val.some THEN [tag |-> "Err", v |-> "Expected path to schema file"]
                 ELSE ArgsLoop(args, i + 1, [a EXCEPT !.schema_file = val])
            ELSE IF key = "--out-file"
            THEN IF ~val.some THEN [tag |-> "Err", v |-> "Expected path to output file"]
                 ELSE ArgsLoop(args, i + 1, [a EXCEPT !.out_file = val])
            ELSE IF key = "--field-casing"
            THEN IF ~val.some
                 THEN [tag |-> "Err", v |-> "Expected arguments for field casing."]
                 ELSE IF to_lowercase(val.v) = <<"s", "n", "a", "k", "e">>
                 THEN ArgsLoop(args, i + 1, [a EXCEPT !.field_casing = Some("Snake")])
                 ELSE IF to_lowercase(val.v) = <<"c", "a", "m", "e", "l">>
                 THEN ArgsLoop(args, i + 1, [a EXCEPT !.field_casing = Some("Camel")])
                 ELSE [tag |-> "Err", v |-> "Expected field casing to be one of"]
            ELSE IF key = "--mangle"
            THEN IF ~val.some
                 THEN [tag |-> "Err", v |-> "Expected boolean value for --mangle"]
                 ELSE IF parse_bool(to_lowercase(val.v)).some
                 THEN ArgsLoop(args, i + 1,
                               [a EXCEPT !.should_mangle = parse_bool(to_lowercase(val.v))])
                 ELSE [tag |-> "Err", v |-> "Invalid value for --mangle."]
            ELSE IF key = "--untagged"
            THEN IF ~val.some
                 THEN [tag |-> "Err", v |-> "Expected boolean value for --untagged"]
                 ELSE IF parse_bool(to_lowercase(val.v)).some
                 THEN ArgsLoop(args, i + 1,
                               [a EXCEPT !.untagged_repr = parse_bool(to_lowercase(val.v)).v])
                 ELSE [tag |-> "Err", v |-> "Invalid value for --untagged."]
            ELSE IF key = "--add-plugin"
            THEN IF ~val.some
                 THEN [tag |-> "Err", v |-> "--plugin must be followed by a plugin call."]
                 ELSE IF to_lowercase(val.v) \in Range(a.plugins)
                 THEN [tag |-> "Err", v |-> "Duplicate plugin entry"]
                 ELSE ArgsLoop(args, i + 1,
                               [a EXCEPT !.plugins = Append(@, to_lowercase(val.v))])
            ELSE IF key = "--lang"
            THEN IF ~val.some
                 THEN [tag |-> "Err", v |-> "Expected language identifier for output file"]
                 ELSE IF from_ext(val.v).some
                 THEN ArgsLoop(args, i + 1, [a EXCEPT !.language = from_ext(val.v)])
                 ELSE [tag |-> "Err", v |-> "Expected language identifier to be one of"]
            ELSE IF key = "--ignore-out-naming"
            THEN ArgsLoop(args, i + 1, [a EXCEPT !.ignore_naming_convention = TRUE])
            ELSE [tag |-> "Err", v |-> "Unrecognized option"]

parse_args(args) ==
    ArgsLoop(args, 1,
             [schema_file |-> None, out_file |-> None, language |-> None,
              field_casing |-> None, plugins |-> <<>>, should_mangle |-> None,
              untagged_repr |-> FALSE, ignore_naming_convention |-> FALSE])

\* the arguments of the command lines
Arguments ==
    {<<"--schema", <<"s", ".", "j", "s", "o", "n">>>>,
     <<"--schema">>,
     <<"--out-file", <<"a", "_", "g", "e", "n", "e", "r", "a", "t", "e", "d", ".", "t", "s">>>>,
     <<"--out-file", <<"a", "-", "g", "e", "n", "e", "r", "a", "t", "e", "d", ".", "r", "s">>>>,
     <<"--out-file", <<"a", ".", "t", "s">>>>,
     <<"--out-file", <<"a", "_", "g", "e", "n", "e", "r", "a", "t", "e", "d">>>>,
     <<"--lang", <<"r", "s">>>>,
     <<"--lang", <<"p", "y">>>>,
     <<"--field-casing", <<"S", "n", "a", "k", "e">>>>,
     <<"--untagged", <<"O", "N">>>>,
     <<"--untagged", <<"m", "a", "y", "b", "e">>>>,
     <<"--mangle", <<"0">>>>,
     <<"--add-plugin", <<"w", "a", "r", "p">>>>,
     <<"--ignore-out-naming">>,
     <<"--bogus">>}

\* the decoded contents of the schema files
MainDocs ==
    {JObj(<<<<Chars.structs,
              JObj(<<<<Names.P, PlainStruct(<<<<Names.a, JStr(Chars.string)>>>>)>>>>)>>,
            <<Chars.routes,
              JObj(<<<<Names.r, RouteDoc(Some(JStr(Chars.query)), Some(JStr(Names.d)),
                                         Some(Ref(Chars.struct, Names.P)),
                                         Some(JStr(Chars.u8)))>>>>)>>>>),
     JObj(<<>>),
     JObj(<<<<Chars.structs,
              JObj(<<<<Names.P, PlainStruct(<<<<Names.a, Ref(Chars.struct, Names.Q)>>>>)>>>>)>>>>),
     JObj(<<<<Chars.structs,
              JObj(<<<<Names.P, StructDoc(<<>>, FALSE, JObj(<<>>))>>>>)>>>>),
     JObj(<<<<Chars.structs,
              JObj(<<<<Names.P, PlainStruct(<<<<Names.a, JStr(Chars.enum)>>>>)>>>>)>>>>),
     JArr(<<>>)}

\* the end of a run: the process exits with a code; a return from main
\* gives 0, a panic 101
Exit(p, exit_code, failed) ==
    [p EXCEPT !.pc = "exit", !.exit_code = exit_code, !.failed = failed]

\* a run that has started, before its arguments are parsed
Started ==
    [pc |-> "read", args |-> <<>>, schema_json |-> <<>>, out_file |-> "untouched",
     exit_code |-> 0, failed |-> "none", message |-> ""]

\* parse_args; on Err the message is printed and main returns
ParseArgs ==
    /\ proc.pc = "off"
    /\ \E args \in SeqsUpTo(Arguments, MaxArgs) :
         \E result \in {parse_args(args)} :
            proc' = IF result.tag = "Ok"
                    THEN [Started EXCEPT !.args = result.v]
                    ELSE Exit([Started EXCEPT !.message = result.v], 0, "arguments")
    /\ UNCHANGED <<tokens, runs, conn, db, client, parsed, ctx>>

\* read_to_string(&args.schema_file).expect(..): the file is read or not
ReadSchema ==
    /\ proc.pc = "read"
    /\ \/ proc' = [proc EXCEPT !.pc = "decode"]
       \/ proc' = Exit(proc, 101, "reading")
    /\ UNCHANGED <<tokens, runs, conn, db, client, parsed, ctx>>

\* serde_json::from_str(..).expect(..): the contents are JSON or not
DecodeJson ==
    /\ proc.pc = "decode"
    /\ \/ \E value \in MainDocs : proc' = [proc EXCEPT !.pc = "from_value", !.schema_json = value]
       \/ proc' = Exit(proc, 101, "decoding")
    /\ UNCHANGED <<tokens, runs, conn, db, client, parsed, ctx>>

\* ZetroSchema::from_value; on Err the error is printed and main returns
ValidateSchema ==
    /\ proc.pc = "from_value"
    /\ \E schema \in {ZetroSchema_from_value(proc.schema_json)} :
         proc' = IF schema.tag = "Ok" THEN [proc EXCEPT !.pc = "generate"]
                 ELSE IF schema.tag = "Err" THEN Exit(proc, 0, "schema")
                 ELSE Exit(proc, 101, "schema")
    /\ UNCHANGED <<tokens, runs, conn, db, client, parsed, ctx>>

\* faulty variant of Generate: the output file is opened before the code is
\* generated
Generate_file_first ==
    /\ proc.pc = "generate"
    /\ \/ proc' = [proc EXCEPT !.pc = "create"]
       \/ proc' = Exit([proc EXCEPT !.out_file = "created"], 0, "generating")
    /\ UNCHANGED <<tokens, runs, conn, db, client, parsed, ctx>>

\* generate_schema_code of the language; on Err the error is printed and
\* main returns
Generate ==
    /\ proc.pc = "generate"
    /\ \/ proc' = [proc EXCEPT !.pc = "create"]
       \/ proc' = Exit(proc, 0, "generating")
    /\ UNCHANGED <<tokens, runs, conn, db, client, parsed, ctx>>

\* File::create(args.out_file).expect(..): the file is created or truncated,
\* or not opened
CreateFile ==
    /\ proc.pc = "create"
    /\ \/ proc' = [proc EXCEPT !.pc = "write", !.out_file = "created"]
       \/ proc' = Exit(proc, 101, "opening")
    /\ UNCHANGED <<tokens, runs, conn, db, client, parsed, ctx>>

\* write_all(..).expect(..), then the return from main
WriteAll ==
    /\ proc.pc = "write"
    /\ \/ proc' = Exit([proc EXCEPT !.out_file = "written"], 0, "none")
       \/ proc' = Exit(proc, 101, "writing")
    /\ UNCHANGED <<tokens, runs, conn, db, client, parsed, ctx>>

\* one run of the generator
InitMain ==
    /\ tokens = <<>>
    /\ runs = <<>>
    /\ conn = <<>>
    /\ db = 0
    /\ client = [pc |-> "off"]
    /\ parsed = NoCall
    /\ proc = NoProc
    /\ ctx = NoContext

NextMain ==
    \/ ParseArgs
    \/ ReadSchema
    \/ DecodeJson
    \/ ValidateSchema
    \/ Generate
    \/ CreateFile
    \/ WriteAll

SpecMain == InitMain /\ [][NextMain]_vars

\* C20: every run of the generator that ends in an argument error, a schema
\* error (parse or validation) or a file I/O error terminates with a nonzero
\* exit code.
C20_ErrorsExitNonzero ==
    (/\ proc.pc = "exit"
     /\ proc.failed \in {"arguments", "schema", "reading", "decoding", "opening", "writing"}) =>
        proc.exit_code # 0

\* C21: in every run in which argument parsing, reading or decoding the
\* schema file, schema validation or code generation fails, the output file
\* is neither created nor modified; the file is opened only after the
\* output text has been generated.
C21_NoOutputOnError ==
    /\ (/\ proc.pc = "exit"
        /\ proc.failed \in {"arguments", "reading", "decoding", "schema", "generating"}) =>
           proc.out_file = "untouched"
    /\ (proc.pc # "off" /\ proc.out_file # "untouched") =>
           \/ proc.pc = "write"
           \/ proc.pc = "exit" /\ proc.failed \in {"none", "writing"}

\* a run whose code generation failed: it has ended and the file is as it was
C21_Witness ==
    /\ proc.pc = "exit"
    /\ proc.failed = "generating"
    /\ proc.out_file = "untouched"

\* the references of a struct object of a name, each with the place it is
\* at: the name of the object that holds the field, and the field's name
RECURSIVE LocatedRefs(_, _)
LocatedRefs(parent, value) ==
    UNION {IF MembersAt(value, Chars.fields)[i][2].t = "string"
           THEN {[parent |-> parent, name |-> MembersAt(value, Chars.fields)[i][1], ref |-> ref] :
                    ref \in TextRefs(MembersAt(value, Chars.fields)[i][2].v)}
           ELSE LocatedRefs(parent \o <<"_">> \o MembersAt(value, Chars.fields)[i][1],
                            MembersAt(value, Chars.fields)[i][2]) :
           i \in DOMAIN MembersAt(value, Chars.fields)}

\* the located references of a schema document: those of its structs, and
\* those of the request and response of its routes
SchemaLocatedRefs(value) ==
    UNION ({LocatedRefs(MembersAt(value, Chars.structs)[i][1],
                        MembersAt(value, Chars.structs)[i][2]) :
                i \in DOMAIN MembersAt(value, Chars.structs)}
           \cup {LocatedRefs(MembersAt(value, Chars.routes)[i][1],
                             [t |-> "object",
                              v |-> <<<<Chars.fields,
                                        [t |-> "object",
                                         v |-> SelectSeq(MembersAt(value, Chars.routes)[i][2].v,
                                                         LAMBDA m : m[1] \in {Chars.request,
                                                                              Chars.response})]>>>>]) :
                    i \in {j \in DOMAIN MembersAt(value, Chars.routes) :
                              MembersAt(value, Chars.routes)[j][2].t = "object"}})

\* C26: every InvalidReference error of ZetroSchema::from_value carries the
\* referent that does not resolve, and its offender is field(parent, name)
\* with parent the struct, nested object or route that holds the field and
\* name the name of the field.
C26_OffenderIsHolder ==
    (/\ parsed.op = "schema"
     /\ parsed.result.tag = "Err"
     /\ parsed.result.v.kind.k = "InvalidReference") =>
        \E loc \in SchemaLocatedRefs(parsed.input) :
            /\ parsed.result.v.kind = InvalidReference(loc.ref.name)
            /\ parsed.result.v.offender = OffenderField(loc.parent, loc.name)

\* ZetroField::to_rust_dtype
to_rust_dtype(field) ==
    LET kind == CASE field.kind.k = "Int8" -> Chars.i8
                  [] field.kind.k = "UInt8" -> Chars.u8
                  [] field.kind.k = "Int16" -> Chars.i16
                  [] field.kind.k = "UInt16" -> Chars.u16
                  [] field.kind.k = "Int32" -> Chars.i32
                  [] field.kind.k = "UInt32" -> Chars.u32
                  [] field.kind.k = "Int64" -> Chars.i64
                  [] field.kind.k = "UInt64" -> Chars.u64
                  [] field.kind.k = "Float32" -> Chars.f32
                  [] field.kind.k = "Float64" -> Chars.f64
                  [] field.kind.k = "Boolean" -> Chars.bool
                  [] field.kind.k = "StringValue" -> <<"S", "t", "r", "i", "n", "g">>
                  [] field.kind.k = "StructValue" ->
                        IF field.is_recursive
                        THEN <<"B", "o", "x", "<">> \o field.kind.x \o <<">">>
                        ELSE field.kind.x
                  [] field.kind.k = "EnumValue" -> field.kind.x
                  [] field.kind.k = "NestedObject" -> field.kind.x.name
        listed == IF field.is_multiple THEN <<"V", "e", "c", "<">> \o kind \o <<">">> ELSE kind
    IN IF field.is_nullable
       THEN <<"O", "p", "t", "i", "o", "n", "<">> \o listed \o <<">">>
       ELSE listed

\* C30: the request or response of a route is never marked recursive; for
\* every route R and struct S a body "struct~S" that is neither nullable
\* nor multiple is accepted and rendered by the backend as the plain type
\* S, whatever the name of R, also when R bears the name of S.
C30_RouteBodiesNotRecursive ==
    parsed.op = "route" =>
        /\ parsed.result.tag = "Ok" =>
             /\ ~parsed.result.v.request_body.is_recursive
             /\ ~parsed.result.v.response_body.is_recursive
        /\ (/\ parsed.input.t = "object"
            /\ RouteHeadSound(parsed.input)
            /\ map_get(parsed.input.v, Chars.request) = Some(Ref(Chars.struct, Names.P))
            /\ map_get(parsed.input.v, Chars.response) = Some(JStr(Chars.u8))) =>
             /\ parsed.result.tag = "Ok"
             /\ to_rust_dtype(parsed.result.v.request_body) = Names.P

(***************************************************************************)
(* Two requests served at once over one ZetroContext.                      *)
(***************************************************************************)
\* operations of the mutation sendMessage: a body that decodes, one that
\* does not
SharedOps ==
    {JArr(<<JStr(tokens[mutations[1]]), b>>) : b \in {JNum(7), JStr(<<"x">>)}}

SharedBodies ==
    {JArr(<<JNum(to_method_code("Mutation")), JArr(ops)>>) : ops \in SeqsUpTo(SharedOps, MaxOps)}

\* a request arrives on one of the two connections
ReceiveShared(r) ==
    /\ conn[r].pc = "idle"
    /\ \E body \in SharedBodies : ServerReceive(r, body)
    /\ UNCHANGED <<tokens, runs, db, client, parsed, proc, ctx>>

InitShared ==
    /\ tokens = [r \in AllRoutes |-> encrypt_route_name(r)]
    /\ runs = <<>>
    /\ conn = [r \in {1, 2} |-> IdleConn]
    /\ db = 0
    /\ parsed = NoCall
    /\ proc = NoProc
    /\ ctx = NoContext
    /\ client = [NewClient("Query", FALSE) EXCEPT !.pc = "off"]

NextShared ==
    \/ \E r \in DOMAIN conn : ReceiveShared(r)
    \/ \E r \in DOMAIN conn : HandlerReturn(r)

SpecShared == InitShared /\ [][NextShared]_vars

\* C23: within one request the handlers run one after the other in the
\* order of the envelope: handler k is started only when the handlers
\* before it have completed, and it sees what they did to the shared state
\* (a later message id is greater than an earlier one of the same request).
C23_HandlersInSequence ==
    \A r \in DOMAIN conn :
        /\ Len(conn[r].calls) = Len(conn[r].results) + (IF conn[r].pc = "await" THEN 1 ELSE 0)
        /\ \A k \in DOMAIN conn[r].calls :
             /\ conn[r].calls[k].op = k
             /\ conn[r].calls[k].route_name = conn[r].operations[k].v[1].v
             /\ conn[r].calls[k].request = conn[r].operations[k].v[2]
        /\ \A j, k \in DOMAIN conn[r].results :
             (j < k /\ conn[r].results[j].ok /\ conn[r].results[k].ok) =>
                 conn[r].results[j].d.v < conn[r].results[k].d.v

\* the second handler of request 1 has run after the first, and a handler
\* of request 2 ran between them
C23_Witness ==
    /\ Len(conn[1].results) = 2
    /\ conn[1].results[1] = Ok(JNum(0))
    /\ conn[1].results[2] = Ok(JNum(2))
    /\ Len(conn[2].results) >= 1
    /\ conn[2].results[1] = Ok(JNum(1))

\* the mutations of a request whose handler has returned Ok
OkMutations(c) ==
    {k \in DOMAIN c.results : c.results[k].ok /\ c.calls[k].route.kind = "Mutation"}

\* C28: when a request is answered with an error for its operation k (the
\* handler failed, or the operation was refused before any handler was
\* called for it), the handlers of the operations before k have run to
\* completion in order, every one of them returned Ok, and what they did
\* to the shared state is still there; the response carries the error only.
C28_NoRollback ==
    \A r \in DOMAIN conn :
        LET c == conn[r]
        IN (c.pc = "done" /\ ResponseData(c).t = "null") =>
            /\ ResponseError(c).t = "array"
            /\ Len(c.results) = Len(c.calls)
            /\ Len(c.calls) \in {c.i, c.i + 1}
            /\ \A k \in 1..c.i : c.results[k].ok /\ c.calls[k].op = k
            /\ Len(c.calls) = c.i + 1 => ~c.results[c.i + 1].ok
            /\ Len(c.operations) > 0 => c.i < Len(c.operations)
            /\ db = Cardinality(OkMutations(c))

\* a mutation has run, then the next operation was refused as malformed:
\* the message stored by the first is still there
C28_Witness ==
    /\ IsErrorReply(conn[1], 400)
    /\ Len(conn[1].operations) = 2
    /\ conn[1].i = 1
    /\ Len(conn[1].calls) = 1
    /\ conn[1].calls[1].route.kind = "Mutation"
    /\ conn[1].operations[2].t # "array"
    /\ db = 1

(***************************************************************************)
(* One builder, fetched more than once.                                    *)
(***************************************************************************)
InitRefetch ==
    /\ tokens = [r \in AllRoutes |-> encrypt_route_name(r)]
    /\ runs = <<>>
    /\ conn = [r \in 1..(MaxFetches + 1) |-> IdleConn]
    /\ db = 0
    /\ parsed = NoCall
    /\ proc = NoProc
    /\ ctx = NoContext
    /\ client = NewClient("Mutation", FALSE)

SpecRefetch == InitRefetch /\ [][NextClient]_vars

IsPrefix(s, t) == Len(s) <= Len(t) /\ \A i \in DOMAIN s : s[i] = t[i]

\* C29: no step of a fetch() (the call, its success, its failure) changes
\* the operations array or the parsers array; a fetch() sends the envelope
\* of the operations accumulated so far, so a fetch() that follows another
\* with no builder call between them sends the same envelope again, and a
\* builder call made after a fetch() appends to what was there before it.
C29_FetchKeepsArrays ==
    [][/\ (client.pc = "fetching" \/ client'.pc = "fetching") =>
            /\ client'.state_ = client.state_
            /\ client'.parsers_ = client.parsers_
       /\ (client.pc = "ready" /\ client'.pc = "fetching") =>
            /\ client'.sent = JArr(<<JNum(to_method_code(client.kind)), JArr(client.state_)>>)
            /\ client.fetches >= 1 =>
                 /\ IsPrefix(client.sent.v[2].v, client'.sent.v[2].v)
                 /\ Len(client.sent.v[2].v) = Len(client.state_) => client'.sent = client.sent
       /\ (client.pc = "ready" /\ client'.pc = "ready") =>
            /\ IsPrefix(client.state_, client'.state_)
            /\ IsPrefix(client.parsers_, client'.parsers_)
            /\ Len(client'.state_) = Len(client'.parsers_)]_vars

\* the same builder has been fetched twice, the first time with an error
\* reply, and the server has received the same envelope both times
C29_Witness ==
    /\ client.pc = "ready"
    /\ client.fetches = 2
    /\ Len(client.state_) = 1
    /\ Len(client.parsers_) = 1
    /\ IsErrorReply(conn[1], 42)
    /\ conn[2].pc = "done"
    /\ conn[2].body = conn[1].body
    /\ client.settled = "resolved"

(***************************************************************************)
(* The untagged representation: structs travel as arrays of their fields.  *)
(***************************************************************************)
\* the referent of a field that holds a struct: the nested object itself,
\* or the struct of that name among the structs of the schema
Referent(structs, field) ==
    IF field.kind.k = "NestedObject" THEN field.kind.x
    ELSE CHOOSE s \in structs : s.name = field.kind.x

HoldsStruct(field) == field.kind.k \in {"StructValue", "NestedObject"}

\* the length handed to serializer.serialize_tuple
serialize_tuple_len(_struct) == 2

\* rust generate_untagged_serializer: the impl blocks of the nested objects,
\* then the one of the struct: the announced length and the elements written
RECURSIVE rust_generate_untagged_serializer(_)
rust_generate_untagged_serializer(_struct) ==
    LET RECURSIVE nested(_)
        nested(i) ==
            IF i > Len(_struct.fields) THEN <<>>
            ELSE (IF _struct.fields[i].kind.k = "NestedObject"
                  THEN rust_generate_untagged_serializer(_struct.fields[i].kind.x)
                  ELSE <<>>) \o nested(i + 1)
    IN Append(nested(1),
              [name |-> _struct.name,
               announced |-> serialize_tuple_len(_struct),
               elements |-> [i \in DOMAIN _struct.fields |-> _struct.fields[i].name]])

\* rust generate_untagged_deserializer: likewise, with the length handed to
\* deserialize_tuple and the elements read by next_element
RECURSIVE rust_generate_untagged_deserializer(_)
rust_generate_untagged_deserializer(_struct) ==
    LET RECURSIVE nested(_)
        nested(i) ==
            IF i > Len(_struct.fields) THEN <<>>
            ELSE (IF _struct.fields[i].kind.k = "NestedObject"
                  THEN rust_generate_untagged_deserializer(_struct.fields[i].kind.x)
                  ELSE <<>>) \o nested(i + 1)
    IN Append(nested(1),
              [name |-> _struct.name,
               expected |-> Len(_struct.fields),
               elements |-> [i \in DOMAIN _struct.fields |->
                                [name |-> _struct.fields[i].name,
                                 dtype |-> to_rust_dtype(_struct.fields[i])]]])

\* the texts of the fields of the structs handed to the generators
UntaggedFieldValues ==
    {JStr(<<"?">> \o Chars.u8),
     JStr(<<"[", "]">> \o Chars.string),
     Ref(Chars.struct, Names.Q),
     Ref(<<"?">> \o Chars.struct, Names.Q),
     Ref(<<"[", "]">> \o Chars.struct, Names.Q),
     Ref(<<"?", "[", "]">> \o Chars.struct, Names.Q),
     Ref(<<"?">> \o Chars.struct, Names.P),
     PlainStruct(<<<<Names.a, JStr(Chars.u8)>>>>),
     StructDoc(<<<<Chars.description, JStr(Names.d)>>, <<Chars.nullable, JBool(TRUE)>>>>,
               FALSE, JObj(<<<<Names.a, JStr(Chars.bool)>>>>)),
     StructDoc(<<<<Chars.description, JStr(Names.d)>>, <<Chars.nullable, JBool(TRUE)>>,
                 <<Chars.multiple, JBool(TRUE)>>>>,
               FALSE, JObj(<<<<Names.a, JStr(Chars.u8)>>>>))}

\* the struct P of the schema: no field, a field a, or the fields a and B
UntaggedDocs ==
    {PlainStruct(<<>>)}
    \cup {PlainStruct(<<<<Names.a, v>>>>) : v \in UntaggedFieldValues}
    \cup {PlainStruct(<<<<Names.a, v>>, <<Names.B, w>>>>) :
            v \in UntaggedFieldValues, w \in UntaggedFieldValues}

\* the struct Q of the schema
QStruct == ZetroStruct_from_value(Names.Q, PlainStruct(<<<<Names.a, JStr(Chars.u8)>>>>)).v

PStructs == {ZetroStruct_from_value(Names.P, doc).v : doc \in UntaggedDocs}

\* the backend generators are run on a struct of the schema
RustUntagged ==
    /\ parsed.op = "none"
    /\ \E _struct \in PStructs \cup {QStruct} :
         parsed' = [op |-> "rust_untagged", input |-> _struct,
                    result |-> [serializer |-> rust_generate_untagged_serializer(_struct),
                                deserializer |->
                                    rust_generate_untagged_deserializer(_struct)]]
    /\ UNCHANGED <<tokens, runs, conn, db, client, proc, ctx>>

\* every struct of the input, the nested objects before the struct that
\* holds them
RECURSIVE StructsOf(_)
StructsOf(_struct) ==
    LET RECURSIVE nested(_)
        nested(i) ==
            IF i > Len(_struct.fields) THEN <<>>
            ELSE (IF _struct.fields[i].kind.k = "NestedObject"
                  THEN StructsOf(_struct.fields[i].kind.x)
                  ELSE <<>>) \o nested(i + 1)
    IN Append(nested(1), _struct)

\* C22: in untagged mode, for every struct S with n fields, whatever n, the
\* backend serializer announces n elements and writes the n fields in the
\* order of S.fields, and the backend deserializer expects n elements and
\* reads them in the same order.
C22_TupleOfAllFields ==
    parsed.op = "rust_untagged" =>
        LET all == StructsOf(parsed.input)
        IN /\ Len(parsed.result.serializer) = Len(all)
           /\ Len(parsed.result.deserializer) = Len(all)
           /\ \A k \in DOMAIN all :
                LET n == Len(all[k].fields)
                    ser == parsed.result.serializer[k]
                    de == parsed.result.deserializer[k]
                IN /\ ser.name = all[k].name /\ de.name = all[k].name
                   /\ ser.announced = n
                   /\ ser.elements = [i \in 1..n |-> all[k].fields[i].name]
                   /\ de.expected = n
                   /\ [i \in 1..n |-> de.elements[i].name] = ser.elements

\* the frontend: what the emitted functions do to the values of the script
MaxDepth == 2

\* the exception of a property access or a call on null or undefined
Thrown == [t |-> "TypeError", v |-> 0]

Nullish(x) == x.t \in {"null", "undefined"}

\* obj.name
Member(obj, name) ==
    IF obj.t = "object" /\ map_get(obj.v, name).some THEN map_get(obj.v, name).v
    ELSE JUndefined

\* an array or object literal one of whose elements threw
Lift(elems, value) ==
    IF \E i \in DOMAIN elems : elems[i] = Thrown THEN Thrown ELSE value

\* the function serialize<S> emitted by typescript
\* generate_untagged_serializer, applied to obj
RECURSIVE serialize(_, _, _)
serialize(structs, _struct, obj) ==
    IF Nullish(obj) /\ _struct.is_nullable THEN JNull
    ELSE IF Nullish(obj) /\ Len(_struct.fields) > 0 THEN Thrown
    ELSE CHOOSE r \in
        {Lift(elems, JArr(elems)) :
            elems \in
               {[i \in DOMAIN _struct.fields |->
                    LET field == _struct.fields[i]
                        x == Member(obj, field.name)
                    IN IF ~HoldsStruct(field) THEN x
                       ELSE IF field.is_multiple /\ Nullish(x)
                       THEN IF field.is_nullable THEN JUndefined ELSE Thrown
                       ELSE IF field.is_multiple /\ x.t # "array" THEN Thrown
                       ELSE CHOOSE e \in
                           {IF field.is_multiple THEN Lift(out, JArr(out)) ELSE out[1] :
                               out \in
                                  {[j \in DOMAIN (IF field.is_multiple THEN x.v ELSE <<x>>) |->
                                       serialize(structs, Referent(structs, field),
                                                 (IF field.is_multiple THEN x.v
                                                  ELSE <<x>>)[j])]}} : TRUE]}} : TRUE

\* the function deserialize<S> emitted by typescript
\* generate_untagged_deserializer, applied to obj
RECURSIVE deserialize(_, _, _)
deserialize(structs, _struct, obj) ==
    IF Nullish(obj) THEN JNull
    ELSE CHOOSE r \in
        {Lift(props, JObj([i \in DOMAIN props |-> <<_struct.fields[i].name, props[i]>>])) :
            props \in
               {[i \in DOMAIN _struct.fields |->
                    LET field == _struct.fields[i]
                        x == Index(obj, i - 1)
                    IN IF ~HoldsStruct(field) THEN x
                       ELSE IF field.is_multiple /\ Nullish(x)
                       THEN IF field.is_nullable THEN JUndefined ELSE Thrown
                       ELSE IF field.is_multiple /\ x.t # "array" THEN Thrown
                       ELSE CHOOSE e \in
                           {IF field.is_multiple THEN Lift(out, JArr(out)) ELSE out[1] :
                               out \in
                                  {[j \in DOMAIN (IF field.is_multiple THEN x.v ELSE <<x>>) |->
                                       deserialize(structs, Referent(structs, field),
                                                   (IF field.is_multiple THEN x.v
                                                    ELSE <<x>>)[j])]}} : TRUE]}} : TRUE

\* the values of the primitive types
PrimitiveValues(kind) ==
    IF kind = "StringValue" THEN {JStr(<<"x">>)}
    ELSE IF kind = "Boolean" THEN {JBool(TRUE)}
    ELSE {JNum(7)}

\* the values of the interface emitted for a struct, references followed
\* to the given depth
RECURSIVE StructValues(_, _, _)
StructValues(structs, _struct, depth) ==
    IF depth = 0 THEN {}
    ELSE UNION
        {{JObj([i \in DOMAIN _struct.fields |-> <<_struct.fields[i].name, f[i]>>]) :
            f \in {f \in [DOMAIN _struct.fields -> UNION {V[i] : i \in DOMAIN V}] :
                      \A i \in DOMAIN V : f[i] \in V[i]}} :
         V \in {[i \in DOMAIN _struct.fields |->
                   LET field == _struct.fields[i]
                   IN UNION
                      {(IF field.is_multiple
                        THEN {JArr(<<>>)} \cup {JArr(<<b>>) : b \in base}
                        ELSE base)
                       \cup (IF field.is_nullable THEN {JNull} ELSE {}) :
                         base \in {IF HoldsStruct(field)
                                   THEN StructValues(structs, Referent(structs, field),
                                                     depth - 1)
                                   ELSE PrimitiveValues(field.kind.k)}}]}}

\* a value is serialized and the array is deserialized
RoundTrip ==
    /\ parsed.op = "none"
    /\ \E _struct \in PStructs :
         \E structs \in {{_struct, QStruct}} :
            \E v \in StructValues(structs, _struct, MaxDepth) :
               \E array \in {serialize(structs, _struct, v)} :
                  parsed' = [op |-> "round_trip", input |-> [_struct |-> _struct, v |-> v],
                             result |-> [serialized |-> array,
                                         deserialized |->
                                             IF array = Thrown THEN Thrown
                                             ELSE deserialize(structs, _struct, array)]]
    /\ UNCHANGED <<tokens, runs, conn, db, client, proc, ctx>>

\* the deserializer of the struct a body refers to, applied to x: to each
\* element through .map (with ?. when the body is nullable) or to x itself
ApplyDeserializer(structs, body, elementwise, x) ==
    IF ~elementwise THEN deserialize(structs, Referent(structs, body), x)
    ELSE IF Nullish(x) THEN (IF body.is_nullable THEN JUndefined ELSE Thrown)
    ELSE IF x.t # "array" THEN Thrown
    ELSE CHOOSE r \in
        {Lift(out, JArr(out)) :
            out \in {[j \in DOMAIN x.v |->
                        deserialize(structs, Referent(structs, body), x.v[j])]}} : TRUE

\* whether the response parser of a route goes through .map
response_body_elementwise(route) == route.request_body.is_multiple

\* response_body_expr in untagged mode, applied to the entry of a response
response_body_expr_untagged(structs, route, item) ==
    IF HoldsStruct(route.response_body)
    THEN ApplyDeserializer(structs, route.response_body, response_body_elementwise(route),
                           Index(item, 1))
    ELSE Index(item, 1)

\* the routes handed to the client generator: a request body and a response
\* body with each combination of modifiers
UntaggedRoutes ==
    {ZetroRoute_from_value(Names.r,
                           RouteDoc(Some(JStr(Chars.query)), Some(JStr(Names.d)),
                                    Some(request), Some(response))).v :
        request \in {JStr(m \o Chars.u8) : m \in {<<>>, <<"?">>, <<"[", "]">>, <<"?", "[", "]">>}}
                    \cup {Ref(<<"[", "]">> \o Chars.struct, Names.Q)},
        response \in {Ref(m \o Chars.struct, Names.Q) :
                         m \in {<<>>, <<"?">>, <<"[", "]">>, <<"?", "[", "]">>}}
                     \cup {JStr(Chars.u8)}}

\* what the server sends for a response body: a struct as the array of its
\* fields
ResponseItems(body) ==
    UNION {(IF body.is_multiple THEN {JArr(<<>>), JArr(<<one>>), JArr(<<one, one>>)}
            ELSE {one})
           \cup (IF body.is_nullable THEN {JNull} ELSE {}) :
             one \in {IF HoldsStruct(body) THEN JArr(<<JNum(7)>>) ELSE JNum(7)}}

\* the parser pushed by the builder method of a route is applied to the
\* entry of a response
ResponseParser ==
    /\ parsed.op = "none"
    /\ \E route \in UntaggedRoutes :
         \E data \in ResponseItems(route.response_body) :
            \E item \in {JArr(<<JStr(Names.r), data>>)} :
               parsed' = [op |-> "response", input |-> [route |-> route, item |-> item],
                          result |-> [elementwise |-> response_body_elementwise(route),
                                      value |-> response_body_expr_untagged({QStruct}, route,
                                                                            item)]]
    /\ UNCHANGED <<tokens, runs, conn, db, client, proc, ctx>>

InitUntagged == InitSchema

NextUntagged ==
    \/ RustUntagged
    \/ RoundTrip
    \/ ResponseParser

SpecUntagged == InitUntagged /\ [][NextUntagged]_vars

\* a value with undefined read as null, as JSON does
RECURSIVE Normal(_)
Normal(v) ==
    IF v.t = "undefined" THEN JNull
    ELSE IF v.t = "array" THEN JArr([i \in DOMAIN v.v |-> Normal(v.v[i])])
    ELSE IF v.t = "object" THEN JObj([i \in DOMAIN v.v |-> <<v.v[i][1], Normal(v.v[i][2])>>])
    ELSE v

\* C27: in untagged mode of the frontend, for every struct S and value v of
\* S, nullable fields holding null included, serializeS(v) is an array
\* that holds field i of S at index i, and deserializeS(serializeS(v))
\* completes and equals v field by field.
C27_RoundTrip ==
    parsed.op = "round_trip" =>
        LET fields == parsed.input._struct.fields
            v == parsed.input.v
        IN /\ parsed.result.serialized.t = "array"
           /\ Len(parsed.result.serialized.v) = Len(fields)
           /\ \A i \in DOMAIN fields :
                ~HoldsStruct(fields[i]) =>
                    parsed.result.serialized.v[i] = Member(v, fields[i].name)
           /\ parsed.result.deserialized # Thrown
           /\ Normal(parsed.result.deserialized) = Normal(v)

\* C25: in untagged mode, for every route whose response body refers to a
\* struct, the response parser of the client applies the deserializer of
\* the struct to each element when the response body is multiple and to
\* the entry itself when it is not, whatever the modifiers of the request
\* body of the route.
C25_ResponseModifiersDecide ==
    (parsed.op = "response" /\ HoldsStruct(parsed.input.route.response_body)) =>
        /\ parsed.result.elementwise = parsed.input.route.response_body.is_multiple
        /\ parsed.result.value =
              ApplyDeserializer({QStruct}, parsed.input.route.response_body,
                                parsed.input.route.response_body.is_multiple,
                                Index(parsed.input.item, 1))

(***************************************************************************)
(* The host: it fills a ZetroContext and hands it to generate_routes.      *)
(***************************************************************************)
MaxInserts == 2

\* the types of the items of the host, and the items
TypeIds == {"Mutex<Db>", "Config"}
Items == {"first", "second"}

\* ZetroContext::new
ZetroContext_new == [pc |-> "building", data |-> <<>>, inserted |-> <<>>, got |-> <<>>]

\* ZetroContext::insert: the entry of the type of the item is set to it
ZetroContext_insert(c, T, item) ==
    [c EXCEPT !.data = [U \in DOMAIN c.data \cup {T} |-> IF U = T THEN item ELSE c.data[U]],
              !.inserted = Append(@, [type |-> T, item |-> item])]

\* ZetroContext::get: the entry of the type, a panic when there is none
ZetroContext_get(c, T) ==
    IF T \in DOMAIN c.data THEN [type |-> T, panicked |-> FALSE, item |-> c.data[T]]
    ELSE [type |-> T, panicked |-> TRUE, item |-> ""]

\* main: ctx.insert(item)
ContextInsert ==
    /\ ctx.pc = "building"
    /\ Len(ctx.inserted) < MaxInserts
    /\ \E T \in TypeIds, item \in Items : ctx' = ZetroContext_insert(ctx, T, item)
    /\ UNCHANGED <<tokens, runs, conn, db, client, parsed, proc>>

\* main: generate_routes(ctx, queries, mutations) moves the context into an Arc
GenerateRoutes ==
    /\ ctx.pc = "building"
    /\ ctx' = [ctx EXCEPT !.pc = "taken"]
    /\ UNCHANGED <<tokens, runs, conn, db, client, parsed, proc>>

\* a request arrives at the routes
ContextReceive(r) ==
    /\ ctx.pc = "taken"
    /\ conn[r].pc = "idle"
    /\ \E body \in SharedBodies : ServerReceive(r, body)
    /\ UNCHANGED <<tokens, runs, db, client, parsed, proc, ctx>>

\* faulty variant of ContextHandler: the handler puts an item of its own
\* into the context
ContextHandler_inserts(r) ==
    /\ ctx.pc = "taken"
    /\ conn[r].pc = "await"
    /\ \E T \in TypeIds, item \in Items :
         ctx' = [ZetroContext_insert(ctx, T, item) EXCEPT
                    !.got = Append(@, ZetroContext_get(ctx, T)), !.inserted = ctx.inserted]
    /\ LET call == conn[r].calls[Len(conn[r].calls)]
       IN \E result \in HandlerResults(call.route.kind) :
            /\ conn' = [conn EXCEPT ![r] = Resume(@, result)]
            /\ db' = IF result.ok /\ call.route.kind = "Mutation" THEN db + 1 ELSE db
    /\ UNCHANGED <<tokens, runs, client, parsed, proc>>

\* the awaited handler runs: it takes an item out of the context through
\* the shared reference it was given (a panic of get ends the request
\* without a reply), works on it and returns
ContextHandler(r) ==
    /\ ctx.pc = "taken"
    /\ conn[r].pc = "await"
    /\ \E T \in TypeIds :
         /\ ctx' = [ctx EXCEPT !.got = Append(@, ZetroContext_get(ctx, T))]
         /\ IF ZetroContext_get(ctx, T).panicked
            THEN /\ conn' = [conn EXCEPT ![r].pc = "panicked"]
                 /\ db' = db
            ELSE LET call == conn[r].calls[Len(conn[r].calls)]
                 IN \E result \in HandlerResults(call.route.kind) :
                      /\ conn' = [conn EXCEPT ![r] = Resume(@, result)]
                      /\ db' = IF result.ok /\ call.route.kind = "Mutation"
                               THEN db + 1 ELSE db
    /\ UNCHANGED <<tokens, runs, client, parsed, proc>>

InitContext ==
    /\ tokens = [r \in AllRoutes |-> encrypt_route_name(r)]
    /\ runs = <<>>
    /\ conn = [r \in {1} |-> IdleConn]
    /\ db = 0
    /\ parsed = NoCall
    /\ proc = NoProc
    /\ client = [NewClient("Query", FALSE) EXCEPT !.pc = "off"]
    /\ ctx = ZetroContext_new

NextContext ==
    \/ ContextInsert
    \/ GenerateRoutes
    \/ \E r \in DOMAIN conn : ContextReceive(r)
    \/ \E r \in DOMAIN conn : ContextHandler(r)

SpecContext == InitContext /\ [][NextContext]_vars

\* the item of the last insert made for a type
RECURSIVE LastInserted(_, _, _)
LastInserted(inserted, T, i) ==
    IF i = 0 THEN ""
    ELSE IF inserted[i].type = T THEN inserted[i].item
    ELSE LastInserted(inserted, T, i - 1)

\* C24: once generate_routes has taken the context, no step of the server
\* changes the entries of the container, and every get::<T>() made by a
\* handler for a type that was inserted returns the item of the last
\* insert made for T.
C24_ContextFrozen ==
    [][ctx.pc = "taken" =>
          /\ ctx'.pc = "taken"
          /\ ctx'.data = ctx.data
          /\ ctx'.inserted = ctx.inserted
          /\ \A k \in DOMAIN ctx'.got :
                (\E i \in DOMAIN ctx.inserted : ctx.inserted[i].type = ctx'.got[k].type) =>
                    /\ ~ctx'.got[k].panicked
                    /\ ctx'.got[k].item =
                          LastInserted(ctx.inserted, ctx'.got[k].type, Len(ctx.inserted))]_vars

\* the host has inserted two items of one type, and two handlers of a
\* request have each got the second
C24_Witness ==
    /\ ctx.pc = "taken"
    /\ ctx.inserted = <<[type |-> "Mutex<Db>", item |-> "first"],
                        [type |-> "Mutex<Db>", item |-> "second"]>>
    /\ Len(ctx.got) = 2
    /\ \A k \in 1..2 : ctx.got[k] = [type |-> "Mutex<Db>", panicked |-> FALSE, item |-> "second"]
    /\ conn[1].pc = "done"
    /\ Len(conn[1].results) = 2
====
